---- MODULE Spec2Model ----
(***************************************************************************)
(* A model of the retrieval and indexing pipeline of bot_with_rag:         *)
(*   - Retriever.get_relevant_documents_async (bounded retry search),      *)
(*   - process_question / query_llm (the query boundary),                  *)
(*   - VectorStore.create_vector_store_async over PostgresDB (persist,     *)
(*     paged reload, index swap),                                          *)
(*   - docs_loader / async_docs_loader / setting_up_LLM (ingestion),       *)
(*   - the PostgresDB operations called one after another on a database,   *)
(*   - ProcessDocuments.process_documents_async (cleaning).                *)
(* Each flow has its own specification over the shared variables; the      *)
(* variables a flow does not use keep their idle value.                    *)
(***************************************************************************)
EXTENDS Integers, Sequences, FiniteSets, TLC

VARIABLES
    \* ---- the documents table of PostgresDB (rows in id order) ----
    table,
    \* ---- Retriever.get_relevant_documents_async ----
    r_pc,            \* "idle" | "try" | "sleep" | "done"
    r_vectorstore,   \* Retriever.vectorstore, captured in __init__
    k,               \* RAG_CONFIG["search_kwargs"]["k"]
    query,           \* embedding of the query (embed_query result)
    max_retries,     \* argument max_retries
    attempt,         \* loop variable of "for attempt in range(max_retries)"
    attemptLog,      \* one record per attempt made: outcome and store result
    sleeps,          \* number of asyncio.sleep(1) backoff delays taken
    r_result,        \* "none" | "returned" | "returned_None" | "raised"
    documents,       \* the returned list of Document
    r_error,         \* the exception raised to the caller
    \* ---- setting_rag: the global LLM and query_llm / process_question ----
    LLM,             \* the module global LLM (NoLLM is None)
    instances,       \* number of AdvancedRAG objects constructed so far
    q_pc,            \* "idle" | "run" | "retrieve" | "model" | "done"
    question,        \* argument of query_llm
    loop_state,      \* event loop seen by asyncio.run in query_llm
    q_LLM0,          \* value of LLM when the query started
    q_calls,         \* calls made by the current query, by kind
    q_failure,       \* the exception raised inside the current query
    q_response,      \* text produced by the model for the current query
    q_result,        \* what query_llm gave back to its caller
    queries,         \* number of query_llm calls started
    \* ---- VectorStore.create_vector_store_async ----
    vectorstore,     \* llm.vectorstore, the active index
    seen,            \* llm.vectorstore as last read by a concurrent query flow
    i_pc,            \* "idle" | "embed" | "save" | "count" | "pages" | "build" | "done"
    texts,           \* texts of the chunks
    embeddings,      \* their embeddings
    metadatas,       \* their metadata
    save_i,          \* loop variable i of save_embeddings_async
    commits,         \* batches committed by save_embeddings_async
    reads,           \* reload reads made: get_total_documents, get_embeddings_async
    total_docs,      \* result of get_total_documents
    batch_size,      \* page size of the reload
    num_batches,     \* number of pages of the reload
    page_i,          \* loop variable i of the reload
    all_texts,       \* accumulated texts
    all_embeddings,  \* accumulated embeddings
    all_metadatas,   \* accumulated metadata
    writes,          \* assignments made to llm.vectorstore
    other_writes,    \* rows inserted by other writers during the run
    i_result,        \* "none" | "ok" | the exception raised
    \* ---- setting_rag: docs_loader / async_docs_loader / setting_up_LLM ----
    l_pc,            \* "idle" | "check_dir" | "create" | "setting_up" | "process" | "done"
    docs_dir,        \* the directory: whether it exists, and its files
    loaded_documents,\* result of LoadDocuments.load_documents_async
    stages,          \* the stages of the ingestion passed so far, in order
    l_LLM0,          \* value of LLM when the run started
    l_fault,         \* failure of a collaborator met by the run, if any
    l_result,        \* what docs_loader gave back to its caller
    loads,           \* number of docs_loader calls started
    \* ---- PostgresDB: the database and the calls made on it ----
    schema,          \* the objects that exist in the database
    s_db,            \* whether a PostgresDB object has been constructed
    s_pc,            \* "ready" | "save"
    s_op,            \* the operation called last
    s_input,         \* the lists given to save_embeddings_async
    s_i,             \* loop variable i of save_embeddings_async
    s_batches,       \* batches committed by the current save_embeddings_async
    s_fault,         \* the error met by the operation called last, if any
    s_result,        \* what the operation called last gave back to its caller
    s_after,         \* row counts seen after each save_embeddings_async return
    \* ---- ProcessDocuments.process_documents_async ----
    c_pc,            \* "idle" | "loop" | "done"
    c_llm,           \* ProcessDocuments.llm
    c_documents,     \* argument documents
    c_i,             \* position of the loop over documents
    processed_docs,  \* documents cleaned so far
    c_result,        \* what process_documents_async gave back to its caller
    \* ---- bot: the handlers of bot/bot.py and start_bot.py ----
    variant,         \* "bot" (bot/bot.py) | "start_bot" (start_bot.py)
    MAX_HISTORY,     \* config.MAX_HISTORY, read from the environment
    is_premium,      \* users.is_premium of the user
    requests,        \* the row of table requests for the user and today
    waiting_for_question, \* the set of chats waiting for a question
    message_history, \* chat -> the list of (message_id, text)
    tasks,           \* the handler calls in progress, one per update
    b_updates,       \* number of updates dispatched to a handler
    next_id,         \* the next message id Telegram gives out
    asks,            \* chat -> number of waiting_for_question.add(chat) made
    taken,           \* chat -> number of questions taken by handle_message
    text_queries,    \* chat -> number of query_llm calls made by handle_message
    h_last           \* the last direct call on the history, numbered

vars_search == <<r_pc, r_vectorstore, k, query, max_retries, attempt,
                 attemptLog, sleeps, r_result, documents, r_error>>

vars_llm == <<LLM, instances>>

vars_question == <<q_pc, question, loop_state, q_LLM0, q_calls, q_failure,
                   q_response, q_result, queries>>

vars_query == <<vars_llm, vars_question>>

vars_index == <<vectorstore, seen, i_pc, texts, embeddings, metadatas, save_i,
                commits, reads, total_docs, batch_size, num_batches, page_i,
                all_texts, all_embeddings, all_metadatas, writes, other_writes,
                i_result>>

vars_loader == <<l_pc, docs_dir, loaded_documents, stages, l_LLM0, l_fault,
                 l_result, loads>>

vars_store == <<schema, s_db, s_pc, s_op, s_input, s_i, s_batches, s_fault,
                s_result, s_after>>

vars_clean == <<c_pc, c_llm, c_documents, c_i, processed_docs, c_result>>

vars_bot == <<variant, MAX_HISTORY, is_premium, requests, waiting_for_question,
              message_history, tasks, b_updates, next_id, asks, taken,
              text_queries, h_last>>

vars == <<table, vars_search, vars_query, vars_index, vars_loader, vars_store,
          vars_clean, vars_bot>>

\* ------------------------------------------------------------------------
\* Bounds of the model
\* ------------------------------------------------------------------------
MaxRetriesArg == 4        \* max_retries arguments tried: 0..MaxRetriesArg
MaxSearchRows == 2        \* rows in the table at the start of a search
MaxOtherWrites == 1       \* rows another writer appends during a flow
MaxQuestionLen == 2       \* length of the questions tried
MaxQueries == 2           \* query_llm calls in one behaviour
MaxExtraRows == 2         \* rows beyond a page or batch boundary
MaxFiles == 2             \* files in the directory given to docs_loader
MaxLoads == 2             \* docs_loader calls in one behaviour
HalfTurn == 6             \* angle steps in a half turn (resolution of the vectors)
MaxPriorRows == 1         \* rows in the table before the PostgresDB calls
MaxSaves == 2             \* save_embeddings_async calls in one behaviour
MaxScanRows == 4          \* largest table searched by find_similar_async calls
MaxDocs == 2              \* documents given to process_documents_async
MaxTasks == 2             \* handler calls of the bot in progress at once
MaxUpdates == 3           \* updates dispatched to the handlers of the bot
MaxHistoryCalls == 3      \* direct calls on the message history

\* ------------------------------------------------------------------------
\* Program constants
\* ------------------------------------------------------------------------
DefaultMaxRetries == 3    \* get_relevant_documents_async(max_retries=3)
HardCap == 10             \* min(RAG_CONFIG["search_kwargs"]["k"], 10)
DefaultK == 20            \* RAG_SEARCH_K default
PageSize == 100           \* batch_size = min(100, total_docs)
SaveBatchSize == 1000     \* batch_size = 1000 in save_embeddings_async
MinTextLength == 10       \* if len(cleaned_text) < 10: the document is dropped
RequiredArgs == 1         \* process_documents_async(self, documents)
PassedArgs == 0           \* ProcessDocuments(loaded_documents).process_documents_async()
EMBEDDING_DIMENSION == 768 \* EMBEDDING_DIMENSION = 768
DefaultLimit == 5          \* find_similar_async(query_embedding, limit=5)
DailyLimit == 10           \* "if request_count >= 10": free requests per day
DefaultMaxHistory == 50    \* MAX_HISTORY = int(os.getenv("MAX_HISTORY", "50"))

\* ------------------------------------------------------------------------
\* Values
\* ------------------------------------------------------------------------
\* Embeddings are unit vectors of some dimension, named by their angle in
\* steps of a half turn / HalfTurn; the cosine distance of two of them grows
\* with their angular difference.
AngleSteps == 2 * HalfTurn

Vector(a, d) == [angle |-> a % AngleSteps, dim |-> d]

QueryAngles == {0, 1}

\* A row holding a vector of the configured dimension.
Row(c, e) == [content |-> c, metadata |-> [source |-> c],
              embedding |-> Vector(e, EMBEDDING_DIMENSION)]

\* The rows earlier runs left in the table: row i has content i.
PriorTable(p) == [i \in 1..p |-> Row(i, i)]

Min(a, b) == IF a < b THEN a ELSE b

Abs(a) == IF a < 0 THEN -a ELSE a

\* embedding <=> query : the cosine distance, as the rank of the angle
\* between the two vectors (0: same direction, HalfTurn: opposite).
CosineDistance(e, q) ==
    Min(Abs(e.angle - q.angle), AngleSteps - Abs(e.angle - q.angle))

\* 1 - (embedding <=> query), in units of one angle step
Similarity(e, q) == 1 - CosineDistance(e, q)

\* ------------------------------------------------------------------------
\* PostgresDB.find_similar_async
\* ------------------------------------------------------------------------
SeqsUpTo(S, n) == UNION {[1..m -> S] : m \in 0..n}

\* The result tuple (content, metadata, similarity) of one row.
ResultTuple(row, q) == <<row.content, row.metadata, Similarity(row.embedding, q)>>

\* The ways to list m of the rows in "left", nearest to q first.  The order
\* of rows at the same distance is not fixed: every sorted choice is possible.
RECURSIVE NearestFirst(_, _, _, _)
NearestFirst(tbl, q, left, m) ==
    IF m = 0 \/ left = {} THEN {<<>>}
    ELSE LET nearest == {i \in left : \A j \in left :
                            CosineDistance(tbl[i].embedding, q)
                               <= CosineDistance(tbl[j].embedding, q)}
         IN  UNION {{<<i>> \o rest : rest \in NearestFirst(tbl, q, left \ {i}, m - 1)} :
                       i \in nearest}

\* SELECT content, metadata, 1 - (embedding <=> q) FROM documents
\* ORDER BY embedding <=> q LIMIT limit
FindSimilarOrders(tbl, q, limit) == NearestFirst(tbl, q, 1..Len(tbl), limit)

FindSimilar(tbl, q, limit) ==
    {[i \in 1..Len(ix) |-> ResultTuple(tbl[ix[i]], q)] :
        ix \in FindSimilarOrders(tbl, q, limit)}

\* ------------------------------------------------------------------------
\* Retriever.get_relevant_documents_async
\* ------------------------------------------------------------------------
\* A limit without the cap: the configured k is passed as it is.
SearchLimit_NoCap(kk) == kk

\* limit=min(RAG_CONFIG["search_kwargs"]["k"], 10)
SearchLimit(kk) == Min(kk, HardCap)

\* A conversion that builds the list back to front.
ToDocuments_Reversed(results) ==
    [i \in 1..Len(results) |->
        [page_content |-> results[Len(results) + 1 - i][1],
         metadata |-> results[Len(results) + 1 - i][2]]]

\* for content, metadata, similarity in results: Document(page_content, metadata)
ToDocuments(results) ==
    [i \in 1..Len(results) |->
        [page_content |-> results[i][1], metadata |-> results[i][2]]]

\* if self.vectorstore and hasattr(self.vectorstore, 'postgres_db')
HasPostgres(vs) == vs = "VectorStore"

\* A retry test that is off by one: the last attempt is retried as well.
ShouldRetry_OffByOne(a, mr) == a < mr

\* A retry test that gives up one attempt early.
ShouldRetry_GivesUpEarly(a, mr) == a < mr - 2

\* if attempt < max_retries - 1: sleep and go on, else: raise
ShouldRetry(a, mr) == a < mr - 1

Logged(outcome, results) == [outcome |-> outcome, results |-> results]

\* The call: the loop starts at attempt 0.
get_relevant_documents_async(q, mr) ==
    /\ r_pc = "idle"
    /\ r_pc' = "try"
    /\ query' = Vector(q, EMBEDDING_DIMENSION)
    /\ max_retries' = mr
    /\ attempt' = 0
    /\ UNCHANGED <<table, r_vectorstore, k, attemptLog, sleeps, r_result,
                   documents, r_error>>
    /\ UNCHANGED <<vars_query, vars_index, vars_loader, vars_store, vars_clean, vars_bot>>

\* range(max_retries) is exhausted: the function falls off its end.
LoopExhausted ==
    /\ r_pc = "try"
    /\ attempt >= max_retries
    /\ r_pc' = "done"
    /\ r_result' = "returned_None"
    /\ UNCHANGED <<table, r_vectorstore, k, query, max_retries, attempt,
                   attemptLog, sleeps, documents, r_error>>
    /\ UNCHANGED <<vars_query, vars_index, vars_loader, vars_store, vars_clean, vars_bot>>

\* except Exception as e: retry after a delay, or re-raise on the last attempt.
OnSearchException(e) ==
    /\ attemptLog' = Append(attemptLog, Logged(e, <<>>))
    /\ IF ShouldRetry(attempt, max_retries)
         THEN /\ r_pc' = "sleep"
              /\ UNCHANGED <<r_result, r_error>>
         ELSE /\ r_pc' = "done"
              /\ r_result' = "raised"
              /\ r_error' = [type |-> e, attempt |-> attempt + 1]
    /\ UNCHANGED <<table, r_vectorstore, k, query, max_retries, attempt,
                   sleeps, documents>>

\* embed_query raises.
AttemptEmbedFails ==
    /\ r_pc = "try"
    /\ attempt < max_retries
    /\ OnSearchException("EmbeddingError")
    /\ UNCHANGED <<vars_query, vars_index, vars_loader, vars_store, vars_clean, vars_bot>>

\* The vector store is missing or has no postgres_db: ValueError.
AttemptNoStore ==
    /\ r_pc = "try"
    /\ attempt < max_retries
    /\ ~HasPostgres(r_vectorstore)
    /\ OnSearchException("ValueError")
    /\ UNCHANGED <<vars_query, vars_index, vars_loader, vars_store, vars_clean, vars_bot>>

\* find_similar_async raises a connection or query error.
AttemptStoreFails ==
    /\ r_pc = "try"
    /\ attempt < max_retries
    /\ HasPostgres(r_vectorstore)
    /\ OnSearchException("StoreError")
    /\ UNCHANGED <<vars_query, vars_index, vars_loader, vars_store, vars_clean, vars_bot>>

\* The attempt succeeds: the rows found are converted and returned.
AttemptSucceeds ==
    /\ r_pc = "try"
    /\ attempt < max_retries
    /\ HasPostgres(r_vectorstore)
    /\ \E results \in FindSimilar(table, query, SearchLimit(k)) :
          /\ attemptLog' = Append(attemptLog, Logged("ok", results))
          /\ documents' = ToDocuments(results)
    /\ r_pc' = "done"
    /\ r_result' = "returned"
    /\ UNCHANGED <<table, r_vectorstore, k, query, max_retries, attempt,
                   sleeps, r_error>>
    /\ UNCHANGED <<vars_query, vars_index, vars_loader, vars_store, vars_clean, vars_bot>>

\* await asyncio.sleep(1) is over: the loop goes to the next attempt.
Backoff ==
    /\ r_pc = "sleep"
    /\ sleeps' = sleeps + 1
    /\ attempt' = attempt + 1
    /\ r_pc' = "try"
    /\ UNCHANGED <<table, r_vectorstore, k, query, max_retries, attemptLog,
                   r_result, documents, r_error>>
    /\ UNCHANGED <<vars_query, vars_index, vars_loader, vars_store, vars_clean, vars_bot>>

\* Another process inserts a row between two attempts of the search.
SearchOtherInsert ==
    /\ r_pc \in {"try", "sleep"}
    /\ Len(table) < MaxSearchRows + MaxOtherWrites
    /\ table' = Append(table, Row(0, 0))
    /\ UNCHANGED vars_search
    /\ UNCHANGED <<vars_query, vars_index, vars_loader, vars_store, vars_clean, vars_bot>>

IdleSearch ==
    /\ r_pc = "idle"
    /\ r_vectorstore = "VectorStore"
    /\ k = DefaultK
    /\ query = Vector(0, EMBEDDING_DIMENSION)
    /\ max_retries = DefaultMaxRetries
    /\ attempt = 0
    /\ attemptLog = <<>>
    /\ sleeps = 0
    /\ r_result = "none"
    /\ documents = <<>>
    /\ r_error = [type |-> "none", attempt |-> 0]

\* Row counts of the table at the start of a search: a few rows, and one
\* row more than the cap of the limit.
SearchCounts == (0..MaxSearchRows) \cup {HardCap + 1}

StartSearch ==
    /\ \E p \in SearchCounts : table = PriorTable(p)
    /\ r_pc = "idle"
    /\ r_vectorstore \in {"VectorStore", "FAISS", "None"}
    /\ k \in {1, DefaultK}
    /\ query = Vector(0, EMBEDDING_DIMENSION)
    /\ max_retries = DefaultMaxRetries
    /\ attempt = 0
    /\ attemptLog = <<>>
    /\ sleeps = 0
    /\ r_result = "none"
    /\ documents = <<>>
    /\ r_error = [type |-> "none", attempt |-> 0]

\* ------------------------------------------------------------------------
\* setting_rag: create_LLM, process_question, query_llm
\* ------------------------------------------------------------------------
NoLLM == [id |-> 0, prompts |-> FALSE]      \* LLM = None

\* A test that takes every value of the global for None.
IsUnset_Always(llm) == TRUE

\* "not LLM"
IsUnset(llm) == llm.id = 0

NoCalls == [construct |-> 0, embed |-> 0, store |-> 0, model |-> 0]

\* Questions are strings over a blank and a letter.
Questions == SeqsUpTo({" ", "x"}, MaxQuestionLen)

\* str.strip(): the string without its leading and trailing whitespace.
RECURSIVE StripLeft(_)
StripLeft(s) == IF s # <<>> /\ Head(s) = " " THEN StripLeft(Tail(s)) ELSE s

RECURSIVE StripRight(_)
StripRight(s) ==
    IF s # <<>> /\ s[Len(s)] = " " THEN StripRight(SubSeq(s, 1, Len(s) - 1)) ELSE s

Strip(s) == StripRight(StripLeft(s))

\* A test that forgets strip(): only the empty string is rejected.
RejectsQuestion_NoStrip(q) == q = <<>>

\* "not question or not question.strip()"
RejectsQuestion(q) == q = <<>> \/ Strip(q) = <<>>

Returned(text) == [kind |-> "returned", text |-> text]

Raised(e) == [kind |-> "raised", text |-> e]

NoResult == [kind |-> "none", text |-> "none"]

\* f"Произошла ошибка: {str(e)}"
ErrorString(e) == <<"Error: ", e>>

\* The handler of process_question: the exception becomes the returned text.
ProcessQuestionHandler(e) == Returned(ErrorString(e))

\* A handler that lets the exception go to the caller.
QueryLlmHandler_Reraise(e) == Raised(e)

\* The handler of query_llm: the exception becomes the returned text.
QueryLlmHandler(e) == Returned(ErrorString(e))

\* What query_llm gives back for the outcome of asyncio.run(process_question).
QueryLlmExit(outcome) ==
    IF outcome.kind = "raised" THEN QueryLlmHandler(outcome.text) ELSE outcome

\* process_question ends with exception e inside its try block.
QuestionFails(e) ==
    /\ q_pc' = "done"
    /\ q_failure' = e
    /\ q_result' = QueryLlmExit(ProcessQuestionHandler(e))

\* query_llm(question): asyncio.run starts process_question, or refuses to
\* run inside an event loop that nest_asyncio has not patched.
query_llm(q, loop) ==
    /\ q_pc \in {"idle", "done"}
    /\ queries < MaxQueries
    /\ queries' = queries + 1
    /\ question' = q
    /\ loop_state' = loop
    /\ q_LLM0' = LLM
    /\ q_calls' = NoCalls
    /\ q_response' = "none"
    /\ IF loop = "running_unpatched"
         THEN /\ q_pc' = "done"
              /\ q_failure' = "RuntimeError_asyncio_run"
              /\ q_result' = QueryLlmExit(Raised("RuntimeError_asyncio_run"))
         ELSE /\ q_pc' = "run"
              /\ q_failure' = "none"
              /\ q_result' = NoResult
    /\ UNCHANGED <<LLM, instances>>
    /\ UNCHANGED <<table, vars_search, vars_index, vars_loader, vars_store,
                   vars_clean, vars_bot>>

\* The question is empty or blank: ValueError, before anything else.
RejectQuestion ==
    /\ q_pc = "run"
    /\ RejectsQuestion(question)
    /\ QuestionFails("ValueError_empty_question")
    /\ UNCHANGED <<LLM, instances, question, loop_state, q_LLM0, q_calls,
                   q_response, queries>>
    /\ UNCHANGED <<table, vars_search, vars_index, vars_loader, vars_store,
                   vars_clean, vars_bot>>

\* create_LLM: constructing AdvancedRAG raises; the global is not assigned.
LazyInitConstructFails ==
    /\ q_pc = "run"
    /\ ~RejectsQuestion(question)
    /\ IsUnset(LLM)
    /\ q_calls' = [q_calls EXCEPT !.construct = @ + 1]
    /\ QuestionFails("RuntimeError_create_LLM")
    /\ UNCHANGED <<LLM, instances, question, loop_state, q_LLM0, q_response,
                   queries>>
    /\ UNCHANGED <<table, vars_search, vars_index, vars_loader, vars_store,
                   vars_clean, vars_bot>>

\* create_LLM: the global is assigned the new object, then setup_prompts raises.
LazyInitPromptsFail ==
    /\ q_pc = "run"
    /\ ~RejectsQuestion(question)
    /\ IsUnset(LLM)
    /\ q_calls' = [q_calls EXCEPT !.construct = @ + 1]
    /\ instances' = instances + 1
    /\ LLM' = [id |-> instances + 1, prompts |-> FALSE]
    /\ QuestionFails("RuntimeError_create_LLM")
    /\ UNCHANGED <<question, loop_state, q_LLM0, q_response, queries>>
    /\ UNCHANGED <<table, vars_search, vars_index, vars_loader, vars_store,
                   vars_clean, vars_bot>>

\* create_LLM succeeds: LLM is the new, configured object.
LazyInit ==
    /\ q_pc = "run"
    /\ ~RejectsQuestion(question)
    /\ IsUnset(LLM)
    /\ q_calls' = [q_calls EXCEPT !.construct = @ + 1]
    /\ instances' = instances + 1
    /\ LLM' = [id |-> instances + 1, prompts |-> TRUE]
    /\ q_pc' = "retrieve"
    /\ UNCHANGED <<question, loop_state, q_LLM0, q_failure, q_response,
                   q_result, queries>>
    /\ UNCHANGED <<table, vars_search, vars_index, vars_loader, vars_store,
                   vars_clean, vars_bot>>

\* LLM is already set: it is used as it is.
ReuseLLM ==
    /\ q_pc = "run"
    /\ ~RejectsQuestion(question)
    /\ ~IsUnset(LLM)
    /\ q_pc' = "retrieve"
    /\ UNCHANGED <<LLM, instances, question, loop_state, q_LLM0, q_calls,
                   q_failure, q_response, q_result, queries>>
    /\ UNCHANGED <<table, vars_search, vars_index, vars_loader, vars_store,
                   vars_clean, vars_bot>>

\* LLM.query_async, retrieval: the query is embedded and the store searched.
QueryAsyncRetrieve ==
    /\ q_pc = "retrieve"
    /\ q_calls' = [q_calls EXCEPT !.embed = @ + 1, !.store = @ + 1]
    /\ \/ /\ q_pc' = "model"
          /\ UNCHANGED <<q_failure, q_result>>
       \/ QuestionFails("RetrievalError")
    /\ UNCHANGED <<LLM, instances, question, loop_state, q_LLM0, q_response,
                   queries>>
    /\ UNCHANGED <<table, vars_search, vars_index, vars_loader, vars_store,
                   vars_clean, vars_bot>>

\* LLM.query_async, model call: the response is returned as it is.
QueryAsyncModel ==
    /\ q_pc = "model"
    /\ q_calls' = [q_calls EXCEPT !.model = @ + 1]
    /\ \/ \E text \in {"answer1", "answer2"} :
             /\ q_response' = text
             /\ q_pc' = "done"
             /\ q_result' = QueryLlmExit(Returned(text))
             /\ UNCHANGED q_failure
       \/ /\ QuestionFails("ModelCallError")
          /\ UNCHANGED q_response
    /\ UNCHANGED <<LLM, instances, question, loop_state, q_LLM0, queries>>
    /\ UNCHANGED <<table, vars_search, vars_index, vars_loader, vars_store,
                   vars_clean, vars_bot>>

IdleQuery ==
    /\ LLM = NoLLM
    /\ instances = 0
    /\ q_pc = "idle"
    /\ question = <<>>
    /\ loop_state = "no_loop"
    /\ q_LLM0 = NoLLM
    /\ q_calls = NoCalls
    /\ q_failure = "none"
    /\ q_response = "none"
    /\ q_result = NoResult
    /\ queries = 0

StartQuery == IdleQuery

\* ------------------------------------------------------------------------
\* PostgresDB: save_embeddings_async, get_total_documents, get_embeddings_async
\* ------------------------------------------------------------------------
\* A slice that takes one element too many.
Slice_OneMore(list, i, size) == SubSeq(list, i + 1, Min(i + size + 1, Len(list)))

\* texts[i:i + batch_size] (0-based i) of a list.
Slice(list, i, size) == SubSeq(list, i + 1, Min(i + size, Len(list)))

\* data = [(text, json.dumps(metadata), embedding) for ... in zip(...)]
BatchRows(ts, ms, es) ==
    [j \in 1..Min(Len(ts), Min(Len(ms), Len(es))) |->
        [content |-> ts[j], metadata |-> ms[j], embedding |-> es[j]]]

\* An INSERT that updates the row of the same content, when there is one.
InsertRows_Upsert(tbl, rows) ==
    [j \in 1..Len(tbl) |->
        IF \E r \in 1..Len(rows) : rows[r].content = tbl[j].content
        THEN rows[CHOOSE r \in 1..Len(rows) : rows[r].content = tbl[j].content]
        ELSE tbl[j]]
    \o SelectSeq(rows, LAMBDA row :
                   \A j \in 1..Len(tbl) : tbl[j].content # row.content)

\* INSERT ... ON CONFLICT DO NOTHING: the only unique key of the table is
\* the serial id, which is new for every row, so every row is appended.
InsertRows(tbl, rows) == tbl \o rows

\* SELECT COUNT(*) FROM documents
CountRows(tbl) == Len(tbl)

\* str(row[1]): the text of a stored vector.
VectorText(e) == <<"[", e, "]">>

\* ast.literal_eval of that text.
LiteralEval(t) == t[2]

\* SELECT content, embedding, metadata FROM documents ORDER BY id
\* [LIMIT limit OFFSET offset]: the rows of one page.
PageRows(tbl, limit, offset) ==
    IF limit = 0 THEN tbl
    ELSE SubSeq(tbl, offset + 1, Min(offset + limit, Len(tbl)))

\* ------------------------------------------------------------------------
\* VectorStore.create_vector_store_async
\* ------------------------------------------------------------------------
\* llm.vectorstore before the rebuild: the VectorStore object itself.
OldStore == [kind |-> "VectorStore", entries |-> <<>>]

\* list(zip(all_texts, all_embeddings)) with metadatas, as FAISS stores them.
IndexEntries(ts, es, ms) ==
    [j \in 1..Min(Len(ts), Min(Len(es), Len(ms))) |-> <<ts[j], es[j], ms[j]>>]

\* FAISS.from_embeddings(...)
FaissIndex(ts, es, ms) == [kind |-> "FAISS", entries |-> IndexEntries(ts, es, ms)]

\* batch_size = min(100, total_docs)
ReloadBatchSize(total) == Min(PageSize, total)

\* A page count that rounds down.
NumBatches_Floor(total, bs) == total \div bs

\* num_batches = (total_docs + batch_size - 1) // batch_size
NumBatches(total, bs) == (total + bs - 1) \div bs

\* A save loop that stops after its first batch.
SaveFinished_OneBatch(i, n) == i >= n \/ i >= SaveBatchSize

\* range(0, len(texts), batch_size) is exhausted.
SaveFinished(i, n) == i >= n

\* A reload loop that is left after its first page.
ReloadFinished_OnePage(i, nb) == i >= nb \/ i >= 1

\* range(num_batches) is exhausted.
ReloadFinished(i, nb) == i >= nb

\* The chunks of a run: chunk j has text -j.
ChunkTexts(n) == [j \in 1..n |-> -j]

ChunkMetadatas(n) == [j \in 1..n |-> [source |-> j % 2]]

ChunkEmbeddings(n) == [j \in 1..n |-> Vector(j, EMBEDDING_DIMENSION)]

\* The exception leaves create_vector_store_async (every handler re-raises).
IndexRaises(e) ==
    /\ i_pc' = "done"
    /\ i_result' = e

\* create_vector_store_async(documents): the documents are split into n chunks.
create_vector_store_async(n) ==
    /\ i_pc = "idle"
    /\ \/ /\ i_pc' = "embed"
          /\ texts' = ChunkTexts(n)
          /\ metadatas' = ChunkMetadatas(n)
          /\ UNCHANGED i_result
       \/ /\ IndexRaises("SplitError")
          /\ UNCHANGED <<texts, metadatas>>
    /\ UNCHANGED <<table, vectorstore, seen, embeddings, save_i, commits, reads,
                   total_docs, batch_size, num_batches, page_i, all_texts,
                   all_embeddings, all_metadatas, writes, other_writes>>
    /\ UNCHANGED <<vars_search, vars_query, vars_loader, vars_store, vars_clean, vars_bot>>

\* embeddings = await asyncio.to_thread(embed_documents, texts)
EmbedDocuments ==
    /\ i_pc = "embed"
    /\ \/ /\ i_pc' = "save"
          /\ embeddings' = ChunkEmbeddings(Len(texts))
          /\ UNCHANGED i_result
       \/ /\ IndexRaises("EmbeddingError")
          /\ UNCHANGED embeddings
    /\ UNCHANGED <<table, vectorstore, seen, texts, metadatas, save_i, commits,
                   reads, total_docs, batch_size, num_batches, page_i,
                   all_texts, all_embeddings, all_metadatas, writes,
                   other_writes>>
    /\ UNCHANGED <<vars_search, vars_query, vars_loader, vars_store, vars_clean, vars_bot>>

\* One batch of save_embeddings_async: inserted and committed, or failed.
SaveBatch ==
    /\ i_pc = "save"
    /\ ~SaveFinished(save_i, Len(texts))
    /\ \/ /\ table' = InsertRows(table,
                        BatchRows(Slice(texts, save_i, SaveBatchSize),
                                  Slice(metadatas, save_i, SaveBatchSize),
                                  Slice(embeddings, save_i, SaveBatchSize)))
          /\ commits' = commits + 1
          /\ save_i' = save_i + SaveBatchSize
          /\ UNCHANGED <<i_pc, i_result>>
       \/ /\ IndexRaises("StoreError_save")
          /\ UNCHANGED <<table, commits, save_i>>
    /\ UNCHANGED <<vectorstore, seen, texts, embeddings, metadatas, reads,
                   total_docs, batch_size, num_batches, page_i, all_texts,
                   all_embeddings, all_metadatas, writes, other_writes>>
    /\ UNCHANGED <<vars_search, vars_query, vars_loader, vars_store, vars_clean, vars_bot>>

\* save_embeddings_async returns: every batch is committed.
SaveDone ==
    /\ i_pc = "save"
    /\ SaveFinished(save_i, Len(texts))
    /\ i_pc' = "count"
    /\ UNCHANGED <<table, vectorstore, seen, texts, embeddings, metadatas,
                   save_i, commits, reads, total_docs, batch_size, num_batches,
                   page_i, all_texts, all_embeddings, all_metadatas, writes,
                   other_writes, i_result>>
    /\ UNCHANGED <<vars_search, vars_query, vars_loader, vars_store, vars_clean, vars_bot>>

\* total_docs = await get_total_documents(), then batch_size and num_batches.
GetTotalDocuments ==
    /\ i_pc = "count"
    /\ reads' = reads + 1
    /\ \/ /\ ReloadBatchSize(CountRows(table)) # 0
          /\ total_docs' = CountRows(table)
          /\ batch_size' = ReloadBatchSize(CountRows(table))
          /\ num_batches' = NumBatches(CountRows(table),
                                       ReloadBatchSize(CountRows(table)))
          /\ i_pc' = "pages"
          /\ UNCHANGED i_result
       \/ /\ ReloadBatchSize(CountRows(table)) = 0    \* the division by batch_size
          /\ total_docs' = CountRows(table)
          /\ batch_size' = ReloadBatchSize(CountRows(table))
          /\ IndexRaises("ZeroDivisionError")
          /\ UNCHANGED num_batches
       \/ /\ IndexRaises("StoreError_count")
          /\ UNCHANGED <<total_docs, batch_size, num_batches>>
    /\ UNCHANGED <<table, vectorstore, seen, texts, embeddings, metadatas,
                   save_i, commits, page_i, all_texts, all_embeddings,
                   all_metadatas, writes, other_writes>>
    /\ UNCHANGED <<vars_search, vars_query, vars_loader, vars_store, vars_clean, vars_bot>>

\* One page of the reload: read, converted and accumulated when not empty.
LoadPage ==
    /\ i_pc = "pages"
    /\ ~ReloadFinished(page_i, num_batches)
    /\ reads' = reads + 1
    /\ \/ LET rows == PageRows(table, batch_size, page_i * batch_size)
          IN  /\ all_texts' = all_texts \o [j \in 1..Len(rows) |-> rows[j].content]
              /\ all_embeddings' = all_embeddings \o
                    [j \in 1..Len(rows) |-> LiteralEval(VectorText(rows[j].embedding))]
              /\ all_metadatas' = all_metadatas \o
                    [j \in 1..Len(rows) |-> rows[j].metadata]
              /\ page_i' = page_i + 1
              /\ UNCHANGED <<i_pc, i_result>>
       \/ /\ IndexRaises("StoreError_page")
          /\ UNCHANGED <<all_texts, all_embeddings, all_metadatas, page_i>>
    /\ UNCHANGED <<table, vectorstore, seen, texts, embeddings, metadatas,
                   save_i, commits, total_docs, batch_size, num_batches,
                   writes, other_writes>>
    /\ UNCHANGED <<vars_search, vars_query, vars_loader, vars_store, vars_clean, vars_bot>>

\* The reload loop is over: the index is built and assigned to
\* llm.vectorstore in one statement, or the build raises.
BuildIndex ==
    /\ i_pc = "pages"
    /\ ReloadFinished(page_i, num_batches)
    /\ \/ /\ all_texts # <<>>
          /\ vectorstore' = FaissIndex(all_texts, all_embeddings, all_metadatas)
          /\ writes' = writes + 1
          /\ i_pc' = "done"
          /\ i_result' = "ok"
       \/ /\ all_texts # <<>>
          /\ IndexRaises("IndexBuildError")
          /\ UNCHANGED <<vectorstore, writes>>
       \/ /\ all_texts = <<>>
          /\ IndexRaises("ValueError_no_data")
          /\ UNCHANGED <<vectorstore, writes>>
    /\ UNCHANGED <<table, seen, texts, embeddings, metadatas, save_i, commits,
                   reads, total_docs, batch_size, num_batches, page_i,
                   all_texts, all_embeddings, all_metadatas, other_writes>>
    /\ UNCHANGED <<vars_search, vars_query, vars_loader, vars_store, vars_clean, vars_bot>>

\* A concurrent query flow reads llm.vectorstore.
ReadIndex ==
    /\ i_pc # "idle"
    /\ seen # vectorstore
    /\ seen' = vectorstore
    /\ UNCHANGED <<table, vectorstore, i_pc, texts, embeddings, metadatas,
                   save_i, commits, reads, total_docs, batch_size, num_batches,
                   page_i, all_texts, all_embeddings, all_metadatas, writes,
                   other_writes, i_result>>
    /\ UNCHANGED <<vars_search, vars_query, vars_loader, vars_store, vars_clean, vars_bot>>

\* The rows this run has committed so far.
OwnRows == Min(save_i, Min(Len(texts), Len(embeddings)))

\* The row tbl gets at position pos + 1 of its id order.
InsertAt(tbl, pos, row) ==
    SubSeq(tbl, 1, pos) \o <<row>> \o SubSeq(tbl, pos + 1, Len(tbl))

\* The places in id order where the row of another writer can become
\* visible: a serial id is taken when the row is inserted and the row is
\* seen when its transaction commits, so the row comes after the rows of
\* this run, or before them when its id was taken before theirs.
VisibleAt(tbl) == {Len(tbl) - OwnRows, Len(tbl)}

\* The transaction of another process, which inserted a row while the run
\* was under way, commits.
IndexOtherInsert ==
    /\ i_pc \notin {"idle", "done"}
    /\ other_writes < MaxOtherWrites
    /\ other_writes' = other_writes + 1
    /\ \E pos \in VisibleAt(table) : table' = InsertAt(table, pos, Row(0, 0))
    /\ UNCHANGED <<vectorstore, seen, i_pc, texts, embeddings, metadatas,
                   save_i, commits, reads, total_docs, batch_size, num_batches,
                   page_i, all_texts, all_embeddings, all_metadatas, writes,
                   i_result>>
    /\ UNCHANGED <<vars_search, vars_query, vars_loader, vars_store, vars_clean, vars_bot>>

IdleIndex ==
    /\ vectorstore = OldStore
    /\ seen = OldStore
    /\ i_pc = "idle"
    /\ texts = <<>>
    /\ embeddings = <<>>
    /\ metadatas = <<>>
    /\ save_i = 0
    /\ commits = 0
    /\ reads = 0
    /\ total_docs = 0
    /\ batch_size = 0
    /\ num_batches = 0
    /\ page_i = 0
    /\ all_texts = <<>>
    /\ all_embeddings = <<>>
    /\ all_metadatas = <<>>
    /\ writes = 0
    /\ other_writes = 0
    /\ i_result = "none"

\* Row counts of the table before the run, around the page size.
PriorCounts == {0, 1, PageSize - 1, PageSize, PageSize + MaxExtraRows,
                2 * PageSize + MaxExtraRows}

\* Chunk counts of the run, around the size of a save batch.
ChunkCounts == {0, 1, MaxExtraRows, SaveBatchSize + MaxExtraRows}

StartIndex ==
    /\ IdleIndex
    /\ \E p \in PriorCounts : table = PriorTable(p)

\* ------------------------------------------------------------------------
\* ProcessDocuments: the cleaning of one text
\* ------------------------------------------------------------------------
\* str.split(): the maximal runs of non-blank characters.
RECURSIVE SplitWhitespace(_, _, _)
SplitWhitespace(s, cur, out) ==
    IF s = <<>> THEN (IF cur # <<>> THEN Append(out, cur) ELSE out)
    ELSE IF Head(s) = " "
         THEN SplitWhitespace(Tail(s), <<>>,
                              IF cur # <<>> THEN Append(out, cur) ELSE out)
         ELSE SplitWhitespace(Tail(s), Append(cur, Head(s)), out)

\* ' '.join(words)
RECURSIVE JoinWithSpace(_)
JoinWithSpace(words) ==
    IF words = <<>> THEN <<>>
    ELSE IF Len(words) = 1 THEN words[1]
         ELSE words[1] \o <<" ">> \o JoinWithSpace(Tail(words))

\* cleaned_text = ' '.join(doc.page_content.split())
CleanText(s) == JoinWithSpace(SplitWhitespace(s, <<>>, <<>>))

\* A document is kept by the cleaning when its cleaned text is not empty
\* and not shorter than the minimum length.
SurvivesCleaning(s) == Strip(s) # <<>> /\ Len(CleanText(s)) >= MinTextLength

Letters(n) == [i \in 1..n |-> "x"]

\* The file contents tried: empty, blank, just below and at the minimum
\* length, with and without whitespace to collapse.
FileTexts ==
    {<<>>, <<" ", " ">>, Letters(MinTextLength - 1), Letters(MinTextLength),
     Letters(5) \o <<" ", " ">> \o Letters(MinTextLength - 6),
     <<" ">> \o Letters(MinTextLength - 1) \o <<" ">>}

Unreadable == <<"?">>

\* ------------------------------------------------------------------------
\* setting_rag: docs_loader, async_docs_loader, setting_up_LLM
\* ------------------------------------------------------------------------
\* raise RuntimeError(f"...: {str(e)}") in setting_up_LLM
SettingUpHandler(e) == Raised(<<"RuntimeError_setting_up_LLM", e>>)

\* raise RuntimeError(f"...: {str(e)}") in async_docs_loader
AsyncDocsLoaderHandler(e) == Raised(<<"RuntimeError_async_docs_loader", e>>)

\* A handler that only logs the error.
DocsLoaderHandler_LogOnly(e) == Returned("None")

\* raise RuntimeError(f"...: {str(e)}") in docs_loader
DocsLoaderHandler(e) == Raised(<<"RuntimeError_docs_loader", e>>)

\* An exception raised in the body of async_docs_loader leaves docs_loader.
LoaderFails(e) ==
    /\ l_pc' = "done"
    /\ l_result' = DocsLoaderHandler(AsyncDocsLoaderHandler(e).text)

\* An exception raised in setting_up_LLM goes through its handler first.
SettingUpFails(e) == LoaderFails(SettingUpHandler(e).text)

\* LoadDocuments(...).load_documents_async(): the readable files, in order.
RECURSIVE LoadReadable(_)
LoadReadable(files) ==
    IF files = <<>> THEN <<>>
    ELSE IF Head(files) = Unreadable THEN LoadReadable(Tail(files))
         ELSE <<[page_content |-> Head(files)]>> \o LoadReadable(Tail(files))

\* docs_loader(docs_dir): asyncio.run(async_docs_loader(docs_dir)) starts.
docs_loader ==
    /\ l_pc \in {"idle", "done"}
    /\ loads < MaxLoads
    /\ loads' = loads + 1
    /\ l_pc' = "check_dir"
    /\ loaded_documents' = <<>>
    /\ stages' = <<>>
    /\ l_LLM0' = LLM
    /\ l_fault' = "none"
    /\ l_result' = NoResult
    /\ UNCHANGED <<docs_dir, vars_llm>>
    /\ UNCHANGED <<table, vars_search, vars_question, vars_index, vars_store,
                   vars_clean, vars_bot>>

\* if not os.path.exists(docs_dir): raise FileNotFoundError
CheckDirectory ==
    /\ l_pc = "check_dir"
    /\ IF docs_dir.exists
         THEN /\ l_pc' = "create"
              /\ UNCHANGED l_result
         ELSE LoaderFails("FileNotFoundError")
    /\ UNCHANGED <<docs_dir, loaded_documents, stages, l_LLM0, l_fault, loads,
                   vars_llm>>
    /\ UNCHANGED <<table, vars_search, vars_question, vars_index, vars_store,
                   vars_clean, vars_bot>>

\* create_LLM: constructing AdvancedRAG raises; the global is not assigned.
LoaderCreateConstructFails ==
    /\ l_pc = "create"
    /\ l_fault' = "construct"
    /\ LoaderFails("RuntimeError_create_LLM")
    /\ UNCHANGED <<docs_dir, loaded_documents, stages, l_LLM0, loads, vars_llm>>
    /\ UNCHANGED <<table, vars_search, vars_question, vars_index, vars_store,
                   vars_clean, vars_bot>>

\* create_LLM: the global is assigned the new object, then setup_prompts raises.
LoaderCreatePromptsFail ==
    /\ l_pc = "create"
    /\ l_fault' = "prompts"
    /\ instances' = instances + 1
    /\ LLM' = [id |-> instances + 1, prompts |-> FALSE]
    /\ LoaderFails("RuntimeError_create_LLM")
    /\ UNCHANGED <<docs_dir, loaded_documents, stages, l_LLM0, loads>>
    /\ UNCHANGED <<table, vars_search, vars_question, vars_index, vars_store,
                   vars_clean, vars_bot>>

\* LLM = create_LLM(Config_LLM) succeeds.
LoaderCreate ==
    /\ l_pc = "create"
    /\ instances' = instances + 1
    /\ LLM' = [id |-> instances + 1, prompts |-> TRUE]
    /\ l_pc' = "setting_up"
    /\ UNCHANGED <<docs_dir, loaded_documents, stages, l_LLM0, l_fault,
                   l_result, loads>>
    /\ UNCHANGED <<table, vars_search, vars_question, vars_index, vars_store,
                   vars_clean, vars_bot>>

\* setting_up_LLM([docs_dir]): the path is checked and the documents loaded.
LoadDocuments ==
    /\ l_pc = "setting_up"
    /\ IF docs_dir.exists
         THEN /\ loaded_documents' = LoadReadable(docs_dir.files)
              /\ stages' = Append(stages, "load")
              /\ l_pc' = "process"
              /\ UNCHANGED l_result
         ELSE /\ SettingUpFails("FileNotFoundError")
              /\ UNCHANGED <<loaded_documents, stages>>
    /\ UNCHANGED <<docs_dir, l_LLM0, l_fault, loads, vars_llm>>
    /\ UNCHANGED <<table, vars_search, vars_question, vars_index, vars_store,
                   vars_clean, vars_bot>>

\* ProcessDocuments(loaded_documents).process_documents_async(): the method
\* takes the argument documents and the call passes none, which is a
\* TypeError raised by the call.
CallProcessDocuments ==
    /\ l_pc = "process"
    /\ PassedArgs # RequiredArgs
    /\ SettingUpFails("TypeError_missing_argument_documents")
    /\ UNCHANGED <<docs_dir, loaded_documents, stages, l_LLM0, l_fault, loads,
                   vars_llm>>
    /\ UNCHANGED <<table, vars_search, vars_question, vars_index, vars_store,
                   vars_clean, vars_bot>>

IdleLoader ==
    /\ l_pc = "idle"
    /\ docs_dir = [exists |-> TRUE, files |-> <<>>]
    /\ loaded_documents = <<>>
    /\ stages = <<>>
    /\ l_LLM0 = NoLLM
    /\ l_fault = "none"
    /\ l_result = NoResult
    /\ loads = 0

StartLoader ==
    /\ l_pc = "idle"
    /\ \E e \in BOOLEAN, files \in SeqsUpTo(FileTexts \cup {Unreadable}, MaxFiles) :
          /\ ~e => files = <<>>
          /\ docs_dir = [exists |-> e, files |-> files]
    /\ loaded_documents = <<>>
    /\ stages = <<>>
    /\ l_LLM0 = NoLLM
    /\ l_fault = "none"
    /\ l_result = NoResult
    /\ loads = 0

\* ------------------------------------------------------------------------
\* PostgresDB: the schema, and the operations called one after another
\* ------------------------------------------------------------------------
\* CREATE EXTENSION vector; CREATE TABLE documents;
\* CREATE INDEX documents_embedding_idx
InitStatements ==
    <<"extension vector", "table documents", "index documents_embedding_idx">>

FullSchema == {InitStatements[j] : j \in 1..Len(InitStatements)}

\* A CREATE without IF NOT EXISTS: an object that exists is an error.
CreateIfNotExists_Plain(sch, obj) ==
    [error |-> obj \in sch, schema |-> sch \cup {obj}]

\* CREATE ... IF NOT EXISTS obj: an object that exists is skipped.
CreateIfNotExists(sch, obj) == [error |-> FALSE, schema |-> sch \cup {obj}]

\* The statements of _init_db, executed in order on one cursor.
RECURSIVE RunStatements(_, _)
RunStatements(sch, stmts) ==
    IF stmts = <<>> THEN [error |-> FALSE, schema |-> sch]
    ELSE LET r == CreateIfNotExists(sch, Head(stmts))
         IN  IF r.error THEN r ELSE RunStatements(r.schema, Tail(stmts))

\* A handler that only logs the error of get_embeddings_async.
OnStoreException_LogOnly(op, e) ==
    IF op = "get_embeddings_async" THEN Returned("None") ELSE Raised(e)

\* except Exception as e: logger.error(...); raise   (in every operation)
OnStoreException(op, e) == Raised(e)

\* A column declared as vector, without a dimension.
DimensionAccepted_Any(d) == TRUE

\* embedding vector(768): the column takes vectors of this dimension only.
DimensionAccepted(d) == d = EMBEDDING_DIMENSION

\* The INSERT of a batch is refused as a whole when one of its rows is.
RowsAccepted(rows) ==
    {j \in 1..Len(rows) : ~DimensionAccepted(rows[j].embedding.dim)} = {}

\* {} : a metadata dict without keys.
EmptyMetadata == [source |-> -1]

SaveInput(ts, given, ms, es) ==
    [texts |-> ts, has_metadatas |-> given, metadatas |-> ms, embeddings |-> es]

\* if metadatas is None: metadatas = [{} for _ in texts]
Metadatas(inp) ==
    IF inp.has_metadatas THEN inp.metadatas
    ELSE [j \in 1..Len(inp.texts) |-> EmptyMetadata]

\* A vector whose dimension is not the configured one.
BadVector(a) == Vector(a, EMBEDDING_DIMENSION - 1)

\* Input lengths around the size of a save batch.
LargeCounts == {SaveBatchSize, 2 * SaveBatchSize + MaxExtraRows}

\* The inputs tried: empty; the triple of the prior row; its content with
\* another vector and no metadata; a vector of a wrong dimension, alone and
\* after a good one; long inputs, one with a wrong vector in its last batch.
SaveInputs ==
    {SaveInput(<<>>, TRUE, <<>>, <<>>),
     SaveInput(<<1>>, TRUE, <<[source |-> 1]>>, <<Vector(1, EMBEDDING_DIMENSION)>>),
     SaveInput(<<1>>, FALSE, <<>>, <<Vector(2, EMBEDDING_DIMENSION)>>),
     SaveInput(<<3>>, TRUE, <<[source |-> 3]>>, <<BadVector(3)>>),
     SaveInput(<<3, 4>>, TRUE, <<[source |-> 3], [source |-> 4]>>,
               <<Vector(3, EMBEDDING_DIMENSION), BadVector(4)>>),
     SaveInput(ChunkTexts(SaveBatchSize + 1), TRUE,
               ChunkMetadatas(SaveBatchSize + 1),
               [ChunkEmbeddings(SaveBatchSize + 1)
                   EXCEPT ![SaveBatchSize + 1] = BadVector(1)])}
    \cup {SaveInput(ChunkTexts(n), TRUE, ChunkMetadatas(n), ChunkEmbeddings(n)) :
             n \in LargeCounts}

\* The rows of the batch that starts at index i of the input.
InputBatch(inp, i) ==
    BatchRows(Slice(inp.texts, i, SaveBatchSize),
              Slice(Metadatas(inp), i, SaveBatchSize),
              Slice(inp.embeddings, i, SaveBatchSize))

SaveReturn(ok, tbl) == [ok |-> ok, rows |-> CountRows(tbl)]

\* PostgresDB(...): __init__ runs _init_db; a failure leaves no object.
PostgresDB ==
    /\ s_pc = "ready"
    /\ s_op' = "_init_db"
    /\ \/ LET r == RunStatements(schema, InitStatements)
          IN  IF r.error
              THEN /\ s_fault' = "DuplicateObject"
                   /\ s_result' = OnStoreException("_init_db", "DuplicateObject")
                   /\ s_db' = (s_db \/ s_result'.kind = "returned")
                   /\ UNCHANGED schema
              ELSE /\ s_fault' = "none"
                   /\ schema' = r.schema
                   /\ s_result' = Returned("PostgresDB")
                   /\ s_db' = TRUE
       \/ /\ s_fault' = "OperationalError"
          /\ s_result' = OnStoreException("_init_db", "OperationalError")
          /\ s_db' = (s_db \/ s_result'.kind = "returned")
          /\ UNCHANGED schema
    /\ UNCHANGED <<table, s_pc, s_input, s_i, s_batches, s_after>>
    /\ UNCHANGED <<vars_search, vars_query, vars_index, vars_loader, vars_clean, vars_bot>>

\* save_embeddings_async(texts, embeddings, metadatas): the loop starts at 0.
save_embeddings_async ==
    /\ s_pc = "ready"
    /\ s_db
    /\ Len(s_after) < MaxSaves
    /\ s_pc' = "save"
    /\ s_op' = "save_embeddings_async"
    /\ s_i' = 0
    /\ s_batches' = <<>>
    /\ s_fault' = "none"
    /\ s_result' = NoResult
    /\ UNCHANGED <<table, schema, s_db, s_input, s_after>>
    /\ UNCHANGED <<vars_search, vars_query, vars_index, vars_loader, vars_clean, vars_bot>>

\* A connection that keeps the rows inserted before the error.
FailedBatch_KeepsAccepted(tbl, rows) ==
    tbl \o SelectSeq(rows, LAMBDA row : DimensionAccepted(row.embedding.dim))

\* with psycopg2.connect(...) as conn: an exception rolls the transaction of
\* the batch back, so none of its rows is stored.
FailedBatch(tbl, rows) == tbl

\* The exception leaves save_embeddings_async; the open batch is rolled back.
SaveRaises(e) ==
    /\ s_pc' = "ready"
    /\ s_fault' = e
    /\ s_result' = OnStoreException("save_embeddings_async", e)
    /\ table' = FailedBatch(table, InputBatch(s_input, s_i))
    /\ s_after' = Append(s_after, SaveReturn(FALSE, table'))
    /\ UNCHANGED <<s_i, s_batches>>

\* One batch: a connection, one INSERT of its rows, and the commit.
SaveEmbeddingsBatch ==
    /\ s_pc = "save"
    /\ ~SaveFinished(s_i, Len(s_input.texts))
    /\ \/ /\ RowsAccepted(InputBatch(s_input, s_i))
          /\ table' = InsertRows(table, InputBatch(s_input, s_i))
          /\ s_batches' = Append(s_batches,
                                 [start |-> s_i,
                                  rows |-> Len(InputBatch(s_input, s_i))])
          /\ s_i' = s_i + SaveBatchSize
          /\ UNCHANGED <<s_pc, s_fault, s_result, s_after>>
       \/ /\ ~RowsAccepted(InputBatch(s_input, s_i))
          /\ SaveRaises("DataError")
       \/ SaveRaises("OperationalError")
    /\ UNCHANGED <<schema, s_db, s_op, s_input>>
    /\ UNCHANGED <<vars_search, vars_query, vars_index, vars_loader, vars_clean, vars_bot>>

\* The loop of save_embeddings_async is over: the call returns None.
SaveEmbeddingsReturn ==
    /\ s_pc = "save"
    /\ SaveFinished(s_i, Len(s_input.texts))
    /\ s_pc' = "ready"
    /\ s_result' = Returned("None")
    /\ s_after' = Append(s_after, SaveReturn(TRUE, table))
    /\ UNCHANGED <<table, schema, s_db, s_op, s_input, s_i, s_batches, s_fault>>
    /\ UNCHANGED <<vars_search, vars_query, vars_index, vars_loader, vars_clean, vars_bot>>

\* An operation that reads: its value is returned, or its error raised.
StoreRead(op, value) ==
    /\ s_db
    /\ s_op' = op
    /\ \/ /\ s_fault' = "none"
          /\ s_result' = Returned(value)
       \/ /\ s_fault' = "OperationalError"
          /\ s_result' = OnStoreException(op, "OperationalError")
    /\ UNCHANGED <<table, schema, s_db, s_pc, s_input, s_i, s_batches, s_after>>
    /\ UNCHANGED <<vars_search, vars_query, vars_index, vars_loader, vars_clean, vars_bot>>

\* get_total_documents(): SELECT COUNT(*) FROM documents
get_total_documents ==
    /\ s_pc = "ready"
    /\ StoreRead("get_total_documents", CountRows(table))

\* The lists (texts, embeddings, metadatas) made of the rows read.
EmbeddingLists(rows) ==
    <<[j \in 1..Len(rows) |-> rows[j].content],
      [j \in 1..Len(rows) |-> LiteralEval(VectorText(rows[j].embedding))],
      [j \in 1..Len(rows) |-> rows[j].metadata]>>

\* get_embeddings_async(limit, offset)
get_embeddings_async(limit, offset) ==
    /\ s_pc = "ready"
    /\ StoreRead("get_embeddings_async",
                 EmbeddingLists(PageRows(table, limit, offset)))

\* find_similar_async(query_embedding, limit)
find_similar_async(q, limit) ==
    /\ s_pc = "ready"
    /\ Len(table) <= MaxScanRows
    /\ \E results \in FindSimilar(table, Vector(q, EMBEDDING_DIMENSION), limit) :
          StoreRead("find_similar_async", results)

IdleStore ==
    /\ schema = FullSchema
    /\ s_db = FALSE
    /\ s_pc = "ready"
    /\ s_op = "none"
    /\ s_input = SaveInput(<<>>, TRUE, <<>>, <<>>)
    /\ s_i = 0
    /\ s_batches = <<>>
    /\ s_fault = "none"
    /\ s_result = NoResult
    /\ s_after = <<>>

\* A new database, or one that earlier runs have initialised and filled.
StartStore ==
    /\ \E p \in 0..MaxPriorRows : table = PriorTable(p)
    /\ schema \in IF table = <<>> THEN {{}, FullSchema} ELSE {FullSchema}
    /\ s_db = FALSE
    /\ s_pc = "ready"
    /\ s_op = "none"
    /\ s_input \in SaveInputs
    /\ s_i = 0
    /\ s_batches = <<>>
    /\ s_fault = "none"
    /\ s_result = NoResult
    /\ s_after = <<>>

\* ------------------------------------------------------------------------
\* ProcessDocuments.process_documents_async
\* ------------------------------------------------------------------------
\* ProcessDocuments(documents) leaves llm at its default, None.
NoRag == [present |-> FALSE, is_loading_documents |-> FALSE]

Rag(loading) == [present |-> TRUE, is_loading_documents |-> loading]

\* A page_content that is not a string: its split() raises.
NonePage == <<"None">>

\* except Exception as e: logger.error(...); raise
CleanHandler(e) == Raised(e)

\* process_documents_async(documents): an empty list is returned at once.
process_documents_async ==
    /\ c_pc = "idle"
    /\ IF c_documents = <<>>
         THEN /\ c_pc' = "done"
              /\ c_result' = Returned(<<>>)
         ELSE /\ c_pc' = "loop"
              /\ UNCHANGED c_result
    /\ UNCHANGED <<c_llm, c_documents, c_i, processed_docs>>
    /\ UNCHANGED <<table, vars_search, vars_query, vars_index, vars_loader,
                   vars_store, vars_bot>>

\* One document of the loop: cleaned and appended; a document whose
\* cleaning raises is logged and skipped.
CleanDocument ==
    /\ c_pc = "loop"
    /\ c_i <= Len(c_documents)
    /\ c_i' = c_i + 1
    /\ processed_docs' =
          IF c_documents[c_i].page_content = NonePage THEN processed_docs
          ELSE Append(processed_docs,
                      [page_content |-> CleanText(c_documents[c_i].page_content)])
    /\ UNCHANGED <<c_pc, c_llm, c_documents, c_result>>
    /\ UNCHANGED <<table, vars_search, vars_query, vars_index, vars_loader,
                   vars_store, vars_bot>>

\* if not processed_docs and self.llm.is_loading_documents: raise ValueError
\* return processed_docs
CleanReturn ==
    /\ c_pc = "loop"
    /\ c_i > Len(c_documents)
    /\ c_pc' = "done"
    /\ c_result' =
          IF processed_docs # <<>> THEN Returned(processed_docs)
          ELSE IF ~c_llm.present THEN CleanHandler("AttributeError")
          ELSE IF c_llm.is_loading_documents THEN CleanHandler("ValueError")
          ELSE Returned(processed_docs)
    /\ UNCHANGED <<c_llm, c_documents, c_i, processed_docs>>
    /\ UNCHANGED <<table, vars_search, vars_query, vars_index, vars_loader,
                   vars_store, vars_bot>>

\* The contents of the documents tried.
PageContents == FileTexts \cup {NonePage}

StartClean ==
    /\ c_pc = "idle"
    /\ c_llm \in {NoRag, Rag(TRUE), Rag(FALSE)}
    /\ \E contents \in SeqsUpTo(PageContents, MaxDocs) :
          c_documents = [j \in 1..Len(contents) |-> [page_content |-> contents[j]]]
    /\ c_i = 1
    /\ processed_docs = <<>>
    /\ c_result = NoResult

IdleClean ==
    /\ c_pc = "idle"
    /\ c_llm = NoRag
    /\ c_documents = <<>>
    /\ c_i = 1
    /\ processed_docs = <<>>
    /\ c_result = NoResult

\* ------------------------------------------------------------------------
\* bot: the handlers of bot/bot.py and of start_bot.py, one task per update
\* ------------------------------------------------------------------------
vars_rag == <<table, vars_search, vars_question, vars_index, vars_loader,
              vars_store, vars_clean>>

Chats == {1, 2}

Slots == 1..MaxTasks

Zeros == [c \in Chats |-> 0]

\* (message_id, text)
Entry(mid, text) == [mid |-> mid, text |-> text]

\* A chat that is not a key of message_history.
NoHistory == [present |-> FALSE, entries |-> <<>>]

\* A history of n questions with the message ids 1..n.
Filled(n) == [present |-> TRUE, entries |-> [i \in 1..n |-> Entry(i, "question")]]

\* list[-n:] for n >= 0; list[-0:] is the whole list.
LastN(list, n) ==
    IF n = 0 \/ Len(list) <= n THEN list
    ELSE SubSeq(list, Len(list) - n + 1, Len(list))

\* update_message_history(chat_id, message_id, text)
Updated(h, c, mid, text) ==
    LET added == Append(h[c].entries, Entry(mid, text))
    IN  [h EXCEPT ![c] =
            [present |-> TRUE,
             entries |-> IF Len(added) > MAX_HISTORY
                           THEN LastN(added, MAX_HISTORY) ELSE added]]

\* remove_from_history(chat_id, message_id)
Removed(h, c, mid) ==
    IF h[c].present
      THEN [h EXCEPT ![c].entries = SelectSeq(@, LAMBDA e : e.mid # mid)]
      ELSE h

\* "if chat_id in message_history: message_history[chat_id] = []"
Cleared(h, c) == IF h[c].present THEN [h EXCEPT ![c].entries = <<>>] ELSE h

\* No row of table requests for the user and today.
NoRequests == [present |-> FALSE, count |-> 0]

\* A remove that never raises (set.discard).
RemoveRaises_Discard(set, x) == FALSE

\* set.remove(x) raises KeyError when x is not in the set.
RemoveRaises(set, x) == x \notin set

NoTask == [kind |-> "none", chat |-> 0, pc |-> "done", mid |-> 0, sent |-> 0]

NoCall == [n |-> 0, op |-> "none", chat |-> 0, mid |-> 0]

\* The lowest slot without a handler in progress.
Free(t) == tasks[t].pc = "done" /\ \A u \in 1..(t - 1) : tasks[u].pc # "done"

\* An update is dispatched; its message has the next message id.
Dispatched ==
    /\ b_updates < MaxUpdates
    /\ b_updates' = b_updates + 1
    /\ next_id' = next_id + 1

\* The handler of the update runs to its first await of the database.
Starts(t, kind, c) ==
    /\ Free(t)
    /\ Dispatched
    /\ tasks' = [tasks EXCEPT ![t] = [kind |-> kind, chat |-> c, pc |-> "select",
                                      mid |-> next_id, sent |-> 0]]

Finish(t) == tasks' = [tasks EXCEPT ![t] = NoTask]

\* /ask. bot/bot.py checks the limit first; start_bot.py adds the chat at once.
ask_command(t, c) ==
    /\ IF variant = "bot"
         THEN /\ Starts(t, "ask", c)
              /\ UNCHANGED <<waiting_for_question, asks>>
         ELSE /\ Free(t)
              /\ Dispatched
              /\ waiting_for_question' = waiting_for_question \cup {c}
              /\ asks' = [asks EXCEPT ![c] = @ + 1]
              /\ UNCHANGED tasks
    /\ UNCHANGED <<variant, MAX_HISTORY, is_premium, requests, message_history, taken,
                   text_queries, h_last, vars_llm>>
    /\ UNCHANGED vars_rag

\* A text message. bot/bot.py returns when the chat is not waiting and then
\* awaits the limit check; start_bot.py tests the set, removes the chat and
\* stores the question without an await in between.
handle_message(t, c) ==
    /\ Free(t)
    /\ Dispatched
    /\ IF c \notin waiting_for_question
         THEN UNCHANGED <<tasks, waiting_for_question, message_history, taken>>
         ELSE IF variant = "bot"
           THEN /\ tasks' = [tasks EXCEPT ![t] =
                                [kind |-> "text", chat |-> c, pc |-> "select",
                                 mid |-> next_id, sent |-> 0]]
                /\ UNCHANGED <<waiting_for_question, message_history, taken>>
           ELSE /\ waiting_for_question' = waiting_for_question \ {c}
                /\ message_history' = Updated(message_history, c, next_id, "question")
                /\ taken' = [taken EXCEPT ![c] = @ + 1]
                /\ tasks' = [tasks EXCEPT ![t] =
                                [kind |-> "text", chat |-> c, pc |-> "query",
                                 mid |-> next_id, sent |-> 0]]
    /\ UNCHANGED <<variant, MAX_HISTORY, is_premium, requests, asks, text_queries, h_last,
                   vars_llm>>
    /\ UNCHANGED vars_rag

\* /project_info, /system_type and /requirements have the same body: the
\* limit check, query_llm with a fixed question, increment_request_count.
CommandStarts(t, c) ==
    /\ Starts(t, "command", c)
    /\ UNCHANGED <<variant, MAX_HISTORY, is_premium, requests, waiting_for_question,
                   message_history, asks, taken, text_queries, h_last, vars_llm>>
    /\ UNCHANGED vars_rag

project_info_command(t, c) == variant = "bot" /\ CommandStarts(t, c)

system_type_command(t, c) == variant = "bot" /\ CommandStarts(t, c)

requirements_command(t, c) == variant = "bot" /\ CommandStarts(t, c)

\* check_request_limit has returned can_make_request to the handler, which
\* runs on to its next await.
Checked(t, can) ==
    LET c == tasks[t].chat
    IN  CASE tasks[t].kind = "ask" ->
               /\ waiting_for_question' =
                     IF can THEN waiting_for_question \cup {c} ELSE waiting_for_question
               /\ asks' = IF can THEN [asks EXCEPT ![c] = @ + 1] ELSE asks
               /\ Finish(t)
               /\ UNCHANGED <<message_history, taken, next_id>>
          [] tasks[t].kind = "command" ->
               /\ tasks' = IF can THEN [tasks EXCEPT ![t].pc = "query"]
                                  ELSE [tasks EXCEPT ![t] = NoTask]
               /\ UNCHANGED <<waiting_for_question, asks, message_history, taken,
                              next_id>>
          [] tasks[t].kind = "text" ->
               IF RemoveRaises(waiting_for_question, c)
                 THEN /\ Finish(t)
                      /\ UNCHANGED <<waiting_for_question, asks, message_history,
                                     taken, next_id>>
                 ELSE /\ waiting_for_question' = waiting_for_question \ {c}
                      /\ UNCHANGED asks
                      /\ IF can
                           THEN /\ message_history' =
                                     Updated(message_history, c, tasks[t].mid, "question")
                                /\ taken' = [taken EXCEPT ![c] = @ + 1]
                                /\ next_id' = next_id + 1
                                /\ tasks' = [tasks EXCEPT ![t].pc = "query",
                                                          ![t].sent = next_id]
                           ELSE /\ Finish(t)
                                /\ UNCHANGED <<message_history, taken, next_id>>

\* check_request_limit: the selects of is_premium and of today's row.
CheckSelect(t) ==
    /\ tasks[t].pc = "select"
    /\ IF is_premium THEN Checked(t, TRUE)
       ELSE IF ~requests.present
              THEN /\ tasks' = [tasks EXCEPT ![t].pc = "insert"]
                   /\ UNCHANGED <<waiting_for_question, asks, message_history,
                                  taken, next_id>>
              ELSE Checked(t, requests.count < DailyLimit)
    /\ UNCHANGED <<variant, MAX_HISTORY, is_premium, requests, b_updates, text_queries,
                   h_last, vars_llm>>
    /\ UNCHANGED vars_rag

\* check_request_limit: the insert of today's row with count 0; the row is
\* unique, so the insert raises when another handler has made it meanwhile.
CheckInsert(t) ==
    /\ tasks[t].pc = "insert"
    /\ IF requests.present
         THEN /\ Finish(t)
              /\ UNCHANGED <<requests, waiting_for_question, asks,
                             message_history, taken, next_id>>
         ELSE /\ requests' = [present |-> TRUE, count |-> 0]
              /\ Checked(t, TRUE)
    /\ UNCHANGED <<variant, MAX_HISTORY, is_premium, b_updates, text_queries, h_last,
                   vars_llm>>
    /\ UNCHANGED vars_rag

\* query_llm(question): the answer or the error text; the first call that
\* passes the validation builds the global LLM.
QueryLlm(t) ==
    /\ tasks[t].pc = "query"
    /\ tasks' = [tasks EXCEPT ![t].pc = IF variant = "bot" THEN "increment"
                                                            ELSE "answer"]
    /\ text_queries' = IF tasks[t].kind = "text"
                         THEN [text_queries EXCEPT ![tasks[t].chat] = @ + 1]
                         ELSE text_queries
    /\ \/ UNCHANGED vars_llm
       \/ /\ IsUnset(LLM)
          /\ instances' = instances + 1
          /\ \E pr \in BOOLEAN : LLM' = [id |-> instances + 1, prompts |-> pr]
    /\ UNCHANGED <<variant, MAX_HISTORY, is_premium, requests, waiting_for_question,
                   message_history, b_updates, next_id, asks, taken, h_last>>
    /\ UNCHANGED vars_rag

\* increment_request_count, then the answer is stored and sent.
IncrementRequestCount(t) ==
    /\ tasks[t].pc = "increment"
    /\ requests' = IF ~is_premium /\ requests.present
                     THEN [requests EXCEPT !.count = @ + 1] ELSE requests
    /\ message_history' =
          IF tasks[t].kind = "text"
            THEN Updated(message_history, tasks[t].chat, tasks[t].sent, "response")
            ELSE message_history
    /\ Finish(t)
    /\ UNCHANGED <<variant, MAX_HISTORY, is_premium, waiting_for_question, b_updates,
                   next_id, asks, taken, text_queries, h_last, vars_llm>>
    /\ UNCHANGED vars_rag

\* start_bot.py: the answer is sent and stored under its message id.
AnswerSent(t) ==
    /\ tasks[t].pc = "answer"
    /\ message_history' = Updated(message_history, tasks[t].chat, next_id, "response")
    /\ next_id' = next_id + 1
    /\ Finish(t)
    /\ UNCHANGED <<variant, MAX_HISTORY, is_premium, requests, waiting_for_question,
                   b_updates, asks, taken, text_queries, h_last, vars_llm>>
    /\ UNCHANGED vars_rag

\* A direct call on the history, the n-th one.
Called(op, c, mid) ==
    /\ h_last.n < MaxHistoryCalls
    /\ h_last' = [n |-> h_last.n + 1, op |-> op, chat |-> c, mid |-> mid]
    /\ UNCHANGED <<variant, MAX_HISTORY, is_premium, requests, waiting_for_question, tasks,
                   b_updates, asks, taken, text_queries, vars_llm>>
    /\ UNCHANGED vars_rag

update_message_history(c, text) ==
    /\ Called("update_message_history", c, next_id)
    /\ message_history' = Updated(message_history, c, next_id, text)
    /\ next_id' = next_id + 1

remove_from_history(c, mid) ==
    /\ Called("remove_from_history", c, mid)
    /\ message_history' = Removed(message_history, c, mid)
    /\ UNCHANGED next_id

\* /clear_history
clear_history(c) ==
    /\ Called("clear_history", c, 0)
    /\ message_history' = Cleared(message_history, c)
    /\ UNCHANGED next_id

IdleBot ==
    /\ variant = "bot"
    /\ MAX_HISTORY = DefaultMaxHistory
    /\ is_premium = FALSE
    /\ requests = NoRequests
    /\ waiting_for_question = {}
    /\ message_history = [c \in Chats |-> NoHistory]
    /\ tasks = [t \in Slots |-> NoTask]
    /\ b_updates = 0
    /\ next_id = 1
    /\ asks = Zeros
    /\ taken = Zeros
    /\ text_queries = Zeros
    /\ h_last = NoCall

\* The counts today's row may hold when the handlers start.
StartCounts == {DailyLimit - 1, DailyLimit}

StartBot ==
    /\ variant \in {"bot", "start_bot"}
    /\ MAX_HISTORY = DefaultMaxHistory
    /\ is_premium \in BOOLEAN
    /\ requests \in {NoRequests} \cup {[present |-> TRUE, count |-> n] : n \in StartCounts}
    /\ variant = "start_bot" => ~is_premium /\ requests = NoRequests
    /\ waiting_for_question = {}
    /\ message_history = [c \in Chats |-> NoHistory]
    /\ tasks = [t \in Slots |-> NoTask]
    /\ b_updates = 0
    /\ next_id = 1
    /\ asks = Zeros
    /\ taken = Zeros
    /\ text_queries = Zeros
    /\ h_last = NoCall

\* The values MAX_HISTORY is configured with.
Configured == {0, DefaultMaxHistory}

\* Histories as earlier calls have left them: no key, or MAX_HISTORY - 1 or
\* MAX_HISTORY entries.
StartHistory ==
    /\ variant = "bot"
    /\ MAX_HISTORY \in Configured
    /\ is_premium = FALSE
    /\ requests = NoRequests
    /\ waiting_for_question = {}
    /\ message_history \in [Chats -> {NoHistory} \cup
                              {Filled(n) : n \in {MAX_HISTORY - 1, MAX_HISTORY} \cap Nat}]
    /\ tasks = [t \in Slots |-> NoTask]
    /\ b_updates = 0
    /\ next_id = MAX_HISTORY + 1
    /\ asks = Zeros
    /\ taken = Zeros
    /\ text_queries = Zeros
    /\ h_last = NoCall

\* @@FLOWS@@

\* ------------------------------------------------------------------------
\* Specifications: one per flow
\* ------------------------------------------------------------------------
InitSearch == StartSearch /\ IdleQuery /\ IdleIndex /\ IdleLoader
           /\ IdleStore /\ IdleClean /\ IdleBot

NextSearch ==
    \/ \E q \in QueryAngles, mr \in 0..MaxRetriesArg : get_relevant_documents_async(q, mr)
    \/ LoopExhausted
    \/ AttemptEmbedFails
    \/ AttemptNoStore
    \/ AttemptStoreFails
    \/ AttemptSucceeds
    \/ Backoff
    \/ SearchOtherInsert

SpecSearch == InitSearch /\ [][NextSearch]_vars

InitQuery == StartQuery /\ IdleSearch /\ IdleIndex /\ IdleLoader
          /\ IdleStore /\ IdleClean /\ IdleBot /\ table = <<>>

NextQuery ==
    \/ \E q \in Questions, loop \in {"no_loop", "nested_patched", "running_unpatched"} :
          query_llm(q, loop)
    \/ RejectQuestion
    \/ LazyInitConstructFails
    \/ LazyInitPromptsFail
    \/ LazyInit
    \/ ReuseLLM
    \/ QueryAsyncRetrieve
    \/ QueryAsyncModel

SpecQuery == InitQuery /\ [][NextQuery]_vars

InitIndex == StartIndex /\ IdleSearch /\ IdleQuery /\ IdleLoader
          /\ IdleStore /\ IdleClean /\ IdleBot

NextIndex ==
    \/ \E n \in ChunkCounts : create_vector_store_async(n)
    \/ EmbedDocuments
    \/ SaveBatch
    \/ SaveDone
    \/ GetTotalDocuments
    \/ LoadPage
    \/ BuildIndex
    \/ ReadIndex
    \/ IndexOtherInsert

SpecIndex == InitIndex /\ [][NextIndex]_vars

InitLoader == StartLoader /\ IdleSearch /\ IdleQuery /\ IdleIndex
           /\ IdleStore /\ IdleClean /\ IdleBot /\ table = <<>>

NextLoader ==
    \/ docs_loader
    \/ CheckDirectory
    \/ LoaderCreateConstructFails
    \/ LoaderCreatePromptsFail
    \/ LoaderCreate
    \/ LoadDocuments
    \/ CallProcessDocuments

SpecLoader == InitLoader /\ [][NextLoader]_vars

InitStore == StartStore /\ IdleSearch /\ IdleQuery /\ IdleIndex /\ IdleLoader
             /\ IdleClean /\ IdleBot

NextStore ==
    \/ PostgresDB
    \/ save_embeddings_async
    \/ SaveEmbeddingsBatch
    \/ SaveEmbeddingsReturn
    \/ get_total_documents
    \/ \E page \in {<<0, 0>>, <<1, 1>>} : get_embeddings_async(page[1], page[2])
    \/ \E q \in QueryAngles : find_similar_async(q, DefaultLimit)

SpecStore == InitStore /\ [][NextStore]_vars

InitClean == StartClean /\ IdleSearch /\ IdleQuery /\ IdleIndex /\ IdleLoader
             /\ IdleStore /\ table = <<>> /\ IdleBot

NextClean ==
    \/ process_documents_async
    \/ CleanDocument
    \/ CleanReturn

SpecClean == InitClean /\ [][NextClean]_vars

InitBot == StartBot /\ IdleSearch /\ IdleQuery /\ IdleIndex /\ IdleLoader
           /\ IdleStore /\ IdleClean /\ table = <<>>

NextBot ==
    \/ \E t \in Slots, c \in Chats : ask_command(t, c)
    \/ \E t \in Slots, c \in Chats : handle_message(t, c)
    \/ \E t \in Slots, c \in Chats : project_info_command(t, c)
    \/ \E t \in Slots, c \in Chats : system_type_command(t, c)
    \/ \E t \in Slots, c \in Chats : requirements_command(t, c)
    \/ \E t \in Slots : CheckSelect(t)
    \/ \E t \in Slots : CheckInsert(t)
    \/ \E t \in Slots : QueryLlm(t)
    \/ \E t \in Slots : IncrementRequestCount(t)
    \/ \E t \in Slots : AnswerSent(t)

SpecBot == InitBot /\ [][NextBot]_vars

InitHistory == StartHistory /\ IdleSearch /\ IdleQuery /\ IdleIndex /\ IdleLoader
               /\ IdleStore /\ IdleClean /\ table = <<>>

NextHistory ==
    \/ \E c \in Chats, text \in {"question", "response"} : update_message_history(c, text)
    \/ \E c \in Chats, oldest \in BOOLEAN :
          remove_from_history(c, IF oldest THEN 1 ELSE next_id - 1)
    \/ \E c \in Chats : clear_history(c)

SpecHistory == InitHistory /\ [][NextHistory]_vars

\* @@SPECS@@

\* ------------------------------------------------------------------------
\* Properties of the search
\* ------------------------------------------------------------------------
\* The first n attempts were made and all of them failed.
FirstFailed(n) ==
    /\ Len(attemptLog) >= n
    /\ \A i \in 1..n : attemptLog[i].outcome # "ok"

\* C1: with max_retries = 3 a search makes at most 3 attempts; when the
\* first 3 attempts all fail the search is over, the error of the 3rd
\* attempt has been raised to the caller and no 4th attempt is made.
C1_RetryBound ==
    max_retries = DefaultMaxRetries =>
        /\ Len(attemptLog) <= 3
        /\ attempt <= 2
        /\ FirstFailed(3) =>
              /\ r_pc = "done"
              /\ r_result = "raised"
              /\ r_error = [type |-> attemptLog[3].outcome, attempt |-> 3]

C1_Witness ==
    /\ max_retries = DefaultMaxRetries
    /\ r_pc = "done"
    /\ FirstFailed(3)
    /\ r_result = "raised"
    /\ sleeps = 2

\* C2: with max_retries = 3, a search whose first f < 3 attempts fail and
\* whose attempt f+1 succeeds returns the documents of attempt f+1 without
\* raising, after exactly f+1 attempts; it never gives up (raises) before
\* the 3rd failure and never ends without a result.
C2_SucceedsAfterTransientFailures ==
    max_retries = DefaultMaxRetries =>
        /\ \A f \in 0..2 :
              (Len(attemptLog) = f + 1 /\ FirstFailed(f)
                  /\ attemptLog[f + 1].outcome = "ok") =>
                 /\ r_pc = "done"
                 /\ r_result = "returned"
                 /\ documents = ToDocuments(attemptLog[f + 1].results)
                 /\ sleeps = f
        /\ r_result = "raised" => Len(attemptLog) = 3
        /\ r_result = "returned" => attemptLog[Len(attemptLog)].outcome = "ok"
        /\ r_result # "returned_None"

C2_Witness ==
    /\ max_retries = DefaultMaxRetries
    /\ r_result = "returned"
    /\ Len(attemptLog) = 3
    /\ FirstFailed(2)
    /\ attemptLog[2].outcome = "StoreError"
    /\ Len(documents) > 0

\* ------------------------------------------------------------------------
\* Properties of query_llm
\* ------------------------------------------------------------------------
\* C3: query_llm never raises: every finished call has returned a text,
\* which is the error string of the failure when validation, lazy
\* initialization, retrieval, the model call or asyncio.run failed, and the
\* response of the model otherwise.
C3_QueryNeverRaises ==
    /\ q_result.kind # "raised"
    /\ q_pc = "done" =>
          /\ q_result.kind = "returned"
          /\ q_failure # "none" => q_result.text = ErrorString(q_failure)
          /\ q_failure = "none" => q_result.text = q_response /\ q_response # "none"

C3_Witness ==
    /\ q_pc = "done"
    /\ loop_state = "running_unpatched"
    /\ q_result = Returned(ErrorString("RuntimeError_asyncio_run"))
    /\ queries = 2
    /\ ~IsUnset(LLM)

\* C4: a query with an empty or blank question ends with the validation
\* error string, makes no construction, embedding, store or model call and
\* leaves the global LLM as it was.
C4_EmptyQuestionNoCalls ==
    (q_pc \in {"run", "done"} /\ loop_state # "running_unpatched"
        /\ Strip(question) = <<>>) =>
        /\ q_calls = NoCalls
        /\ LLM = q_LLM0
        /\ q_pc = "done" =>
              q_result = Returned(ErrorString("ValueError_empty_question"))

C4_Witness ==
    /\ q_pc = "done"
    /\ question = <<" ", " ">>
    /\ q_result = Returned(ErrorString("ValueError_empty_question"))
    /\ q_calls = NoCalls
    /\ queries = 2
    /\ ~IsUnset(LLM)

\* C22: LLM is None when the module is loaded; a question that passes the
\* validation while LLM is unset makes one construction, and the object it
\* leaves in LLM is a new one; a question asked while LLM is set, and an
\* empty question, construct nothing and leave LLM as it is; once set, LLM
\* is never replaced by a question.
C22_LazySingleton ==
    /\ LLM = NoLLM /\ instances = 0
    /\ [][/\ (q_pc = "run" /\ q_pc' # "run") =>
                IF Strip(question) = <<>> \/ LLM.id # 0
                  THEN /\ LLM' = LLM
                       /\ instances' = instances
                       /\ q_calls'.construct = 0
                  ELSE /\ q_calls'.construct = 1
                       /\ LLM'.id # 0 =>
                             /\ instances' = instances + 1
                             /\ LLM'.id = instances'
          /\ LLM.id # 0 => LLM' = LLM /\ instances' = instances]_vars

C22_Witness ==
    /\ queries = 2
    /\ q_pc = "done"
    /\ q_LLM0 = [id |-> 1, prompts |-> TRUE]
    /\ LLM = q_LLM0
    /\ instances = 1
    /\ q_calls.construct = 0
    /\ q_calls.model = 1
    /\ q_failure = "none"

\* C25 (the claim as stated): a question whose lazy initialization failed
\* in create_LLM leaves the global LLM unset.
C25_FailedInitLeavesUnset ==
    (q_pc = "done" /\ q_failure = "RuntimeError_create_LLM") => LLM = NoLLM

\* ------------------------------------------------------------------------
\* Properties of the index rebuild
\* ------------------------------------------------------------------------
\* The index holds everything the reload was to accumulate.
CompleteIndex(vs) ==
    /\ vs = FaissIndex(all_texts, all_embeddings, all_metadatas)
    /\ page_i = num_batches
    /\ num_batches >= 1
    /\ Len(all_texts) >= total_docs

\* C5: during a rebuild llm.vectorstore is assigned at most once, and only
\* when every page has been accumulated and the new index is built; in every
\* state, llm.vectorstore and what a concurrent query flow has read from it
\* are the old store or the complete new index.
C5_AtomicSwap ==
    /\ writes <= 1
    /\ writes = 0 => vectorstore = OldStore
    /\ writes = 1 => CompleteIndex(vectorstore) /\ i_pc = "done" /\ i_result = "ok"
    /\ seen = OldStore \/ CompleteIndex(seen)

C5_Witness ==
    /\ writes = 1
    /\ seen = vectorstore
    /\ seen.kind = "FAISS"
    /\ num_batches >= 3

\* The number of batches save_embeddings_async has to commit for n rows.
SaveBatchesOf(n) == (n + SaveBatchSize - 1) \div SaveBatchSize

\* C6: no reload read (get_total_documents or a page of get_embeddings_async)
\* is made before every batch of save_embeddings_async is committed, and
\* when the save fails no reload read and no index build follow.
C6_PersistBeforeReload ==
    /\ (reads > 0 \/ i_pc \in {"count", "pages"} \/ writes > 0) =>
          /\ commits = SaveBatchesOf(Len(texts))
          /\ Len(embeddings) = Len(texts)
          /\ i_result # "StoreError_save"
    /\ i_result = "StoreError_save" =>
          /\ i_pc = "done"
          /\ reads = 0
          /\ writes = 0
          /\ vectorstore = OldStore

C6_Witness ==
    /\ reads > 1
    /\ commits = 2
    /\ Len(texts) > SaveBatchSize
    /\ i_pc = "pages"

\* C7: after a successful rebuild with no other writer, the accumulated
\* data and the installed index are exactly the rows of the documents table
\* (the prior rows, then the new ones), each once and in id order.
C7_ReloadIsWholeTable ==
    (i_pc = "done" /\ i_result = "ok" /\ other_writes = 0) =>
        /\ Len(table) >= 1
        /\ Len(all_texts) = Len(table)
        /\ Len(all_embeddings) = Len(table)
        /\ Len(all_metadatas) = Len(table)
        /\ \A i \in 1..Len(table) :
              /\ all_texts[i] = table[i].content
              /\ all_embeddings[i] = table[i].embedding
              /\ all_metadatas[i] = table[i].metadata
        /\ LET p == Len(table) - Len(texts)
           IN  /\ p >= 0
               /\ \A i \in 1..p : all_texts[i] = i
               /\ \A j \in 1..Len(texts) : all_texts[p + j] = texts[j]
        /\ vectorstore.kind = "FAISS"
        /\ Len(vectorstore.entries) = Len(table)
        /\ \A i \in 1..Len(table) :
              vectorstore.entries[i] =
                  <<table[i].content, table[i].embedding, table[i].metadata>>

C7_Witness ==
    /\ i_pc = "done"
    /\ i_result = "ok"
    /\ other_writes = 0
    /\ Len(table) = PageSize + 1
    /\ Len(texts) = 1
    /\ num_batches = 2

\* The contents of the elements of a list.
Contents(list) == {list[x] : x \in 1..Len(list)}

\* C27: when a rebuild with other writers ends well, the accumulated data
\* holds every row that was in the table when get_total_documents was read
\* (the rows of earlier runs and the rows this run saved, at least), and
\* holds no row twice.
C27_ReloadWithWriters ==
    (i_pc = "done" /\ i_result = "ok") =>
        /\ Contents(texts) \subseteq Contents(all_texts)
        /\ {table[r].content : r \in {q \in 1..Len(table) : table[q].content > 0}}
              \subseteq Contents(all_texts)
        /\ LET own == {x \in 1..Len(all_texts) : all_texts[x] # 0}
           IN  /\ Cardinality({all_texts[x] : x \in own}) = Cardinality(own)
               /\ Len(all_texts) - Cardinality(own) <= other_writes

\* C8 (the claim as stated): when the save succeeded and the reload finds no
\* row, the run ends with the ValueError "no data" and llm.vectorstore is
\* not replaced.
C8_NoDataError ==
    (i_pc = "done" /\ reads > 0 /\ total_docs = 0
        /\ i_result \notin {"StoreError_count", "StoreError_page"}) =>
        /\ i_result = "ValueError_no_data"
        /\ vectorstore = OldStore

\* ------------------------------------------------------------------------
\* Properties of docs_loader
\* ------------------------------------------------------------------------
\* Some file of the directory is loaded and kept by the cleaning.
SomeDocumentSurvives ==
    \E i \in 1..Len(docs_dir.files) :
        docs_dir.files[i] # Unreadable /\ SurvivesCleaning(docs_dir.files[i])

\* C9: a docs_loader run on a directory that does not exist, or of which no
\* document survives loading and filtering, ends by raising to its caller;
\* it never returns normally.
C9_LoaderRaises ==
    (l_pc = "done" /\ (~docs_dir.exists \/ ~SomeDocumentSurvives)) =>
        /\ l_result.kind = "raised"
        /\ l_result.text[1] = "RuntimeError_docs_loader"

C9_Witness ==
    /\ l_pc = "done"
    /\ ~docs_dir.exists
    /\ l_result = Raised(<<"RuntimeError_docs_loader",
                           <<"RuntimeError_async_docs_loader", "FileNotFoundError">>>>)

\* C10 (the claim as stated): a docs_loader run on an existing directory
\* with a document that survives cleaning, and with no failure of the model
\* or of the store, ends without raising, having passed the stages in order,
\* with an index installed.
C10_LoaderCompletes ==
    (l_pc = "done" /\ docs_dir.exists /\ SomeDocumentSurvives /\ l_fault = "none") =>
        /\ l_result.kind = "returned"
        /\ stages = <<"load", "clean", "split_embed", "persist", "reload",
                      "build", "retrievers">>
        /\ vectorstore.kind = "FAISS"

\* C24 (the claim as stated): a docs_loader run that raises leaves the
\* global LLM the object it was when the run started.
C24_FailedLoadKeepsLLM ==
    (l_pc = "done" /\ l_result.kind = "raised") => LLM = l_LLM0

\* ------------------------------------------------------------------------
\* Retriever: the size and the order of the result
\* ------------------------------------------------------------------------
\* C19: a search that returns has asked the store for min(k, 10) rows: it
\* returns that many documents when the table has them and the whole table
\* otherwise, so never more than 10 and never more than k.
C19_AtMostTenAndK ==
    r_result = "returned" =>
        /\ Len(documents) <= HardCap
        /\ Len(documents) <= k
        /\ Len(documents) = Min(Min(k, HardCap), Len(table))

C19_Witness ==
    /\ r_result = "returned"
    /\ k > HardCap
    /\ Len(table) > HardCap
    /\ Len(documents) = HardCap

\* The store result of the attempt that returned.
LastResults == attemptLog[Len(attemptLog)].results

\* The rows of the table of which t is the result tuple for the query.
RowsGiving(t) ==
    {r \in 1..Len(table) :
        /\ t[1] = table[r].content
        /\ t[2] = table[r].metadata
        /\ t[3] = 1 - CosineDistance(table[r].embedding, query)}

\* C20: the store result of a search that returns lists rows of the table
\* with their similarity 1 - distance, none more often than the table has
\* it, the most similar first, and a row more similar than a listed one is
\* listed before it; the documents returned
\* are those rows, one for one and in that order.  A result of zero rows is
\* returned as the empty list by the attempt that got it: no exception, and
\* no delay after it.
C20_DescendingSimilarity ==
    r_result = "returned" =>
        /\ attemptLog[Len(attemptLog)].outcome = "ok"
        /\ sleeps = Len(attemptLog) - 1
        /\ \A i \in 1..Len(LastResults) :
              /\ RowsGiving(LastResults[i]) # {}
              /\ Cardinality({j \in 1..Len(LastResults) :
                                 LastResults[j] = LastResults[i]})
                    <= Cardinality(RowsGiving(LastResults[i]))
        /\ \A r \in 1..Len(table) :
              \A i \in 1..Len(LastResults) :
                  1 - CosineDistance(table[r].embedding, query) > LastResults[i][3]
                     => \E j \in 1..(i - 1) : r \in RowsGiving(LastResults[j])
        /\ \A i, j \in 1..Len(LastResults) :
              i < j => LastResults[i][3] >= LastResults[j][3]
        /\ Len(documents) = Len(LastResults)
        /\ \A i \in 1..Len(documents) :
              /\ documents[i].page_content = LastResults[i][1]
              /\ documents[i].metadata = LastResults[i][2]
        /\ table = <<>> => documents = <<>>

C20_Witness ==
    /\ r_result = "returned"
    /\ Len(documents) >= 3
    /\ LastResults[1][3] > LastResults[Len(LastResults)][3]
    /\ \E i \in 1..(Len(LastResults) - 1) : LastResults[i][3] = LastResults[i + 1][3]

\* C23: an attempt that fails the validation of the vector store (ValueError)
\* is the only attempt of its search: the error is raised at once, with no
\* backoff delay and no further attempt.
C23_ValidationFailsFast ==
    (\E i \in 1..Len(attemptLog) : attemptLog[i].outcome = "ValueError") =>
        /\ Len(attemptLog) = 1
        /\ sleeps = 0
        /\ r_pc = "done"
        /\ r_result = "raised"

\* ------------------------------------------------------------------------
\* PostgresDB
\* ------------------------------------------------------------------------
\* C11: when save_embeddings_async is called twice with the same lists and
\* both calls return, the table has as many rows after the second call as
\* after the first.
C11_SecondSaveAddsNoRow ==
    \A j \in 2..Len(s_after) :
        (s_after[j - 1].ok /\ s_after[j].ok)
            => s_after[j].rows = s_after[j - 1].rows

\* C12: no step of a PostgresDB operation updates or deletes a row: the rows
\* the table had before the step are its first rows after it, unchanged, so
\* the row count never decreases.
C12_RowsNeverChange ==
    [][/\ Len(table') >= Len(table)
       /\ SubSeq(table', 1, Len(table)) = table]_vars

C12_Witness ==
    /\ s_op = "_init_db"
    /\ s_result.kind = "returned"
    /\ Len(s_after) = MaxSaves
    /\ Len(table) > MaxPriorRows

\* The input indexes (0-based) written by a committed batch.
BatchIndexes(b) == b.start .. (b.start + b.rows - 1)

SaveReturned ==
    /\ s_op = "save_embeddings_async"
    /\ s_pc = "ready"
    /\ s_result.kind = "returned"

\* C13: the batches committed by a save_embeddings_async call are consecutive
\* and in index order, none empty and none of more than 1000 rows; when the
\* call returns, every input index 0..n-1 belongs to exactly one batch and
\* the rows of the input are the last n rows of the table, in input order.
C13_BatchesPartitionInput ==
    s_op = "save_embeddings_async" =>
        /\ \A j \in 1..Len(s_batches) :
              /\ s_batches[j].start = (j - 1) * SaveBatchSize
              /\ s_batches[j].rows >= 1
              /\ s_batches[j].rows <= SaveBatchSize
              /\ j < Len(s_batches) => s_batches[j].rows = SaveBatchSize
        /\ SaveReturned =>
              LET n == Len(s_input.texts)
              IN  /\ \A x \in 0..(n - 1) :
                        Cardinality({j \in 1..Len(s_batches) :
                                        x \in BatchIndexes(s_batches[j])}) = 1
                  /\ \A j \in 1..Len(s_batches) :
                        BatchIndexes(s_batches[j]) \subseteq 0..(n - 1)
                  /\ Len(table) >= n
                  /\ SubSeq(table, Len(table) - n + 1, Len(table))
                        = BatchRows(s_input.texts, Metadatas(s_input),
                                    s_input.embeddings)

C13_Witness ==
    /\ SaveReturned
    /\ Len(s_batches) >= 3
    /\ s_batches[Len(s_batches)].rows < SaveBatchSize

\* C16: every row of the table holds a vector of dimension
\* EMBEDDING_DIMENSION: a save that is given a vector of another dimension
\* ends by raising, and get_embeddings_async returns vectors of that
\* dimension only.
C16_StoredDimension ==
    /\ \A j \in 1..Len(table) : table[j].embedding.dim = EMBEDDING_DIMENSION
    /\ SaveReturned =>
          \A j \in 1..Len(s_input.embeddings) :
              s_input.embeddings[j].dim = EMBEDDING_DIMENSION
    /\ (s_op = "get_embeddings_async" /\ s_result.kind = "returned") =>
          \A j \in 1..Len(s_result.text[2]) :
              s_result.text[2][j].dim = EMBEDDING_DIMENSION

C16_Witness ==
    /\ s_op = "save_embeddings_async"
    /\ s_fault = "DataError"
    /\ s_result.kind = "raised"
    /\ s_batches # <<>>

\* C17: an _init_db run on a database that already has the extension, the
\* table and the index leaves the schema and every row as they were, and
\* raises only when the connection itself fails: it never fails because the
\* objects exist.
C17_InitIsIdempotent ==
    [][(s_op' = "_init_db" /\ schema = FullSchema) =>
          /\ schema' = schema
          /\ table' = table
          /\ s_fault' \in {"none", "OperationalError"}
          /\ s_fault' = "none" => s_result' = Returned("PostgresDB")]_vars

C17_Witness ==
    /\ s_op = "_init_db"
    /\ s_after # <<>>
    /\ s_result = Returned("PostgresDB")
    /\ schema = FullSchema
    /\ Len(table) > 0

\* C18: a PostgresDB operation that meets a connection or query error ends
\* by raising that error to its caller, never by returning a value; a
\* PostgresDB object is constructed only when _init_db has made the schema.
C18_StoreErrorsAreRaised ==
    /\ s_fault # "none" =>
          /\ s_result.kind = "raised"
          /\ s_result.text = s_fault
    /\ s_db => schema = FullSchema

C18_Witness ==
    /\ s_op = "get_embeddings_async"
    /\ s_fault = "OperationalError"
    /\ s_result = Raised("OperationalError")
    /\ Len(table) > MaxPriorRows

\* C26: the step at which a batch of save_embeddings_async fails stores no
\* row and raises the error to the caller; the batches before it are
\* committed: their rows, the first s_i rows of the input, are the last rows
\* of the table.  The loop is left, so no later batch is written.
C26_FailedBatchKeepsEarlierOnes ==
    [][(s_pc = "save" /\ s_pc' = "ready" /\ s_fault' # "none") =>
          /\ table' = table
          /\ s_result' = Raised(s_fault')
          /\ s_i' = s_i /\ s_batches' = s_batches
          /\ Len(s_batches) * SaveBatchSize = s_i
          /\ Len(table) >= s_i
          /\ SubSeq(table, Len(table) - s_i + 1, Len(table))
                = SubSeq(BatchRows(s_input.texts, Metadatas(s_input),
                                   s_input.embeddings), 1, s_i)]_vars

C26_Witness ==
    /\ s_op = "save_embeddings_async"
    /\ s_pc = "ready"
    /\ s_fault = "OperationalError"
    /\ s_result = Raised("OperationalError")
    /\ Len(s_batches) >= 2

\* ------------------------------------------------------------------------
\* ProcessDocuments
\* ------------------------------------------------------------------------
\* C14: every document returned by process_documents_async has a cleaned
\* content that is not empty and not shorter than 10 characters.
C14_ReturnedDocumentsLongEnough ==
    c_result.kind = "returned" =>
        \A j \in 1..Len(c_result.text) :
            /\ c_result.text[j].page_content # <<>>
            /\ Len(c_result.text[j].page_content) >= MinTextLength

\* No document of the input survives the cleaning.
NoSurvivor ==
    \A j \in 1..Len(c_documents) :
        \/ c_documents[j].page_content = NonePage
        \/ ~SurvivesCleaning(c_documents[j].page_content)

\* C15: when no document of the input (the empty input included) survives
\* the cleaning, process_documents_async ends by raising when
\* llm.is_loading_documents is true and by returning the empty list when it
\* is false.
C15_NoSurvivorOutcome ==
    (c_pc = "done" /\ c_llm.present /\ NoSurvivor) =>
        IF c_llm.is_loading_documents
        THEN c_result.kind = "raised"
        ELSE c_result = Returned(<<>>)

\* ------------------------------------------------------------------------
\* Properties of the bot
\* ------------------------------------------------------------------------
\* C28 (the claim as stated): for a user who is not premium the count of
\* today's row of table requests never exceeds 10.
C28_DailyLimit ==
    (variant = "bot" /\ ~is_premium) => requests.count <= DailyLimit

\* C29: a text message is taken as a question only while its chat is in
\* waiting_for_question, and taking it removes the chat; query_llm is called
\* by handle_message only for a question taken, so for every chat the calls
\* never outnumber the questions taken and these never outnumber the /ask
\* that added the chat, with one /ask still unused while the chat is waiting.
C29_OneQuestionPerAsk ==
    /\ [](\A c \in Chats :
            /\ text_queries[c] <= taken[c]
            /\ taken[c] <= asks[c]
            /\ c \in waiting_for_question => taken[c] < asks[c])
    /\ [][\A c \in Chats :
            /\ taken'[c] # taken[c] =>
                  /\ taken'[c] = taken[c] + 1
                  /\ c \in waiting_for_question
                  /\ c \notin waiting_for_question'
            /\ text_queries'[c] # text_queries[c] =>
                  /\ text_queries'[c] = text_queries[c] + 1
                  /\ text_queries[c] < taken[c]]_vars

\* Two text messages of one chat are handled at once: the question of one
\* is taken, the other still awaits its limit check.
C29_Witness ==
    /\ variant = "bot"
    /\ tasks[1].kind = "text" /\ tasks[2].kind = "text"
    /\ tasks[1].chat = tasks[2].chat
    /\ tasks[1].pc = "select"
    /\ tasks[2].pc = "query"
    /\ tasks[1].chat \notin waiting_for_question
    /\ taken[tasks[1].chat] = 1

\* C30 (the claim as stated): after any sequence of calls of
\* update_message_history, remove_from_history and clear_history no history
\* is longer than MAX_HISTORY.
C30_HistoryBounded ==
    \A c \in Chats : Len(message_history[c].entries) <= MAX_HISTORY

\* The order kept by the eviction: with MAX_HISTORY at least 1, a call leaves
\* the other chats as they were, and after update_message_history the history
\* is the old one followed by the new entry, without its oldest entries where
\* that is longer than MAX_HISTORY.
NewestKept ==
    [][(MAX_HISTORY >= 1 /\ h_last'.n # h_last.n) =>
          LET c == h_last'.chat
              new == message_history'[c].entries
              added == Append(message_history[c].entries,
                              Entry(h_last'.mid, new[Len(new)].text))
              kept == Min(Len(added), MAX_HISTORY)
          IN  /\ \A d \in Chats \ {c} : message_history'[d] = message_history[d]
              /\ Len(new) <= MAX_HISTORY
              /\ h_last'.op = "update_message_history" =>
                    /\ new # <<>>
                    /\ new = [i \in 1..kept |-> added[i + Len(added) - kept]]]_vars

====
